---- MODULE Spec2Model ----
(***************************************************************************)
(* Model of the nwpio ingestion and publish pipeline.                      *)
(*                                                                         *)
(*   - GribProcessor._upload_zarr_to_gcs / _verify_zarr_upload             *)
(*     (src/nwpio/processor.py): parallel upload of a local Zarr archive   *)
(*     with per-file retry, aggregated failure report and verification.    *)
(*   - GribDownloader.download / _download_file (src/nwpio/downloader.py): *)
(*     parallel transfer of the manifest with skip-if-exists.              *)
(*                                                                         *)
(*   - DataSource.get_file_list / get_next_lead_time (src/nwpio/sources.py) *)
(*     and GribDownloader.validate_availability: the manifest, the next    *)
(*     lead time and the availability check against the source store.      *)
(*                                                                         *)
(*   - DownloadConfig / WorkflowConfig.from_yaml (src/nwpio/config.py) and *)
(*     the run command (src/nwpio/cli.py): validation of a request and the *)
(*     steps of one run.                                                   *)
(*   - GribProcessor.process, loading stage, and _write_local_then_upload  *)
(*     (src/nwpio/processor.py): loading the GRIB files, the destination   *)
(*     check, the local write and the removal of an existing archive.      *)
(*   - ECMWFSource.__init__ / create_data_source (src/nwpio/sources.py)    *)
(*     behind GribDownloader.__init__: the source type of an ECMWF source. *)
(*                                                                         *)
(* The engines are independent; each has its own specification             *)
(* (SpecPublish, SpecDownload, SpecValidate, SpecRun, SpecLoad, SpecWrite, *)
(* SpecZarr, SpecTransfers, SpecSource) over the shared variable tuple,    *)
(* the other engines' variables being held at their construction values.   *)
(* SpecBackoff is the publish engine over a wider range of retry counts,   *)
(* SpecPublishLive the publish engine with weak fairness of the pool.      *)
(***************************************************************************)
EXTENDS Integers, Sequences, FiniteSets, TLC

\* ---------------------------------------------------------------- bounds
NumChunks == 2          \* data files of the local archive (besides .zmetadata)
MaxRetries == 2         \* largest configured upload_max_retries explored
MaxWorkers == 2         \* largest worker-pool size explored
NumSpecs == 2           \* files of the download manifest
MaxRuns == 2            \* consecutive download() calls on one downloader
StoreWindow == 1        \* requested lead times, from the last, the upstream may lack
NumGribFiles == 3       \* most GRIB files found for one process() call
MaxGribWorkers == 2     \* largest max_grib_workers explored
MaxBackoffRetries == 4  \* largest upload_max_retries explored for the backoff schedule
MaxClock == 4           \* ticks of the local filesystem clock during one local write

\* ---------------------------------------------------------------- publish: data
\* The local archive: zarr_files = every file under local_zarr_path.
\* File 0 is the consolidated-metadata control file (.zmetadata).
ZMETADATA == 0
DataChunks == 1..NumChunks
zarr_files == {ZMETADATA} \cup DataChunks

\* An object under the destination prefix that is no file of the local
\* archive (left by an earlier archive of another shape).
OLD_OBJECT == NumChunks + 1
dest_objects == zarr_files \cup {OLD_OBJECT}

\* str(e) of a failed upload attempt
Errors == {"timeout", "reset"}
MaxRetriesExceeded == "Max retries exceeded"
NoResult == [success |-> FALSE, error_msg |-> "none"]
NoError == [kind |-> "none", files |-> {}, count |-> 0]

VARIABLES
    \* ProcessConfig
    upload_max_retries, verify_upload, max_upload_workers,
    \* _upload_zarr_to_gcs, main thread
    pc,               \* position of the publishing thread
    collected,        \* futures whose result the as_completed loop has handled
    failed_uploads,   \* list of <<local_file, error_msg>>
    error,            \* the RuntimeError raised, NoError if none
    checked,          \* files for which _verify_zarr_upload called fs.exists
    \* upload_file_with_retry, one task per file
    task,             \* "queued" | "running" | "done"
    attempt,          \* upload_from_filename calls made so far
    error_msg,        \* error_msg local: str(e) of the latest failed attempt
    result,           \* (success, error_msg) returned by the task
    \* destination store
    gcs,              \* files of the archive present at the destination
    store_lost,       \* TRUE once the store dropped an object it had accepted
    \* time.sleep calls of upload_file_with_retry
    slept             \* slept[f]: the wait_time of each sleep of f's task, in order

pubvars == <<upload_max_retries, verify_upload, max_upload_workers, pc, collected,
             failed_uploads, error, checked, task, attempt, error_msg, result,
             gcs, store_lost, slept>>

\* ---------------------------------------------------------------- download: data
\* file_specs = data_source.get_file_list(): one GribFileSpec per manifest entry
file_specs == 1..NumSpecs

\* an object of the destination that is not the destination_path of any
\* manifest entry, and all destination objects
UNLISTED == NumSpecs + 1
dest_paths == file_specs \cup {UNLISTED}

VARIABLES
    \* DownloadConfig / GribDownloader
    overwrite, dest_kind, max_workers,
    \* stores
    source_store,     \* manifest entries whose source object exists
    dest_store,       \* destination object -> "absent" | "old" | "copied" | "partial"
    \* download(), main thread
    dl_pc, run, dl_collected, downloaded_files, failed_files,
    \* _download_file, one task per spec
    dl_task,          \* "queued" | "running" | "done"
    dl_result,        \* "none" | "true" | "false" | "raised"
    \* observation of one call
    dest_at_start,    \* dest_store when the call started
    skipped,          \* specs returned as already existing
    source_reads,     \* specs whose source object was probed or read
    dest_writes,      \* specs whose destination object was opened for writing
    prev_downloaded   \* set of downloaded_files of the previous call

dlvars == <<overwrite, dest_kind, max_workers, source_store, dest_store, dl_pc, run,
            dl_collected, downloaded_files, failed_files, dl_task, dl_result,
            dest_at_start, skipped, source_reads, dest_writes, prev_downloaded>>

\* ---------------------------------------------------------------- sources: data
\* Lead times are hours.  None is the absent next lead time.
None == -1

\* DownloadConfig.validate_lead_time: the largest max_lead_time of each product
GfsCeiling == 384
HresCeiling == 240
EnsCeiling == 360
Products == {"gfs", "ecmwf-hres", "ecmwf-ens"}
Ceiling(p) == IF p = "gfs" THEN GfsCeiling ELSE IF p = "ecmwf-hres" THEN HresCeiling ELSE EnsCeiling

\* ECMWFSource.source_type: "aws" and "gcs" are what DownloadConfig admits;
\* ECMWFSource(source_type=...) itself accepts any other string ("mirror").
SourceTypes == {"aws", "gcs", "mirror"}

\* The lead times each product is published at (its cadence table).
GfsCadence ==
    {h \in 0..GfsCeiling :
        \/ h <= 120
        \/ h <= 240 /\ (h - 120) % 3 = 0
        \/ (h - 240) % 12 = 0}
HresCadence == {h \in 0..HresCeiling : h <= 90 \/ (h - 90) % 3 = 0}
EnsCadence == {h \in 0..EnsCeiling : (h <= 144 /\ h % 3 = 0) \/ (h > 144 /\ (h - 144) % 6 = 0)}
Cadence(p) == IF p = "gfs" THEN GfsCadence ELSE IF p = "ecmwf-hres" THEN HresCadence ELSE EnsCadence

VARIABLES
    \* DataSource
    product, source_type, max_lead_time,
    \* source store
    upstream,           \* lead times whose source object exists
    listing_ok,         \* FALSE: fs.ls of the cycle directory raises
    \* calls made on the data source / the downloader
    val_pc,             \* "constructed" | "listed" | "scheduled" | "generated"
                        \* | "valid" | "not_ready" | "fetching"
    val_file_specs,     \* get_file_list(): lead times in iteration order
    next_lead_time,     \* get_next_lead_time()
    validation_specs,   \* lead times probed with fs.exists, in order
    val_missing_files, val_available_files,
    required_missing, validation_missing,
    lead_times,         \* _generate_lead_times()
    upstream_at_validation,  \* upstream when validate_availability ran
    fetch_file_specs    \* download(): the lead times it submits a task for

valvars == <<product, source_type, max_lead_time, upstream, listing_ok, val_pc,
             val_file_specs, next_lead_time, validation_specs, val_missing_files,
             val_available_files, required_missing, validation_missing,
             lead_times, upstream_at_validation, fetch_file_specs>>

\* ---------------------------------------------------------------- workflow: data
VARIABLES
    step                \* the workflow step observed: "download" | "process" | ...

\* configuration and the run command (src/nwpio/config.py, src/nwpio/cli.py)
VARIABLES
    route,                      \* how the request is made: "constructor" | "yaml" | "run"
    config_product,             \* DownloadConfig.product
    input_cycle,                \* hour of the cycle given to the constructor / in the YAML, or None
    cli_cycle,                  \* hour of run's --cycle / $CYCLE, or None
    config_max_lead_time,       \* DownloadConfig.max_lead_time as given
    validate_before_download,   \* DownloadConfig.validate_before_download
    skip_download,              \* run's --skip-download
    process_requested,          \* not --skip-process and the YAML has process tasks
    config_pc,                  \* "raw" | "accepted" | "rejected"
    config_cycle,               \* download.cycle of the configuration object (hour or None)
    run_pc,                     \* position in the request
    exit_code,                  \* None while running; 0 | 1 of the run command
    run_log                     \* the pipeline operations the run command has called

runvars == <<route, config_product, input_cycle, cli_cycle, config_max_lead_time,
             validate_before_download, skip_download, process_requested,
             config_pc, config_cycle, run_pc, exit_code, run_log>>

\* GribProcessor.process, loading stage (src/nwpio/processor.py)
VARIABLES
    max_grib_workers,   \* ProcessConfig.max_grib_workers
    grib_files,         \* the files _find_grib_files returned: 1..n
    decodes,            \* decodes[f]: cfgrib can open file f (fixed per file)
    load_pc,            \* position in process()
    grib_idx,           \* sequential loop: the next file to load
    loaded,             \* parallel: futures that are done
    gathered,           \* parallel: futures as_completed has yielded
    datasets,           \* the datasets appended so far, by file
    load_failed_files   \* parallel: failed_files

loadvars == <<max_grib_workers, grib_files, decodes, load_pc, grib_idx, loaded,
              gathered, datasets, load_failed_files>>

\* GribProcessor._write_local_then_upload (src/nwpio/processor.py)
VARIABLES
    pub_overwrite,      \* ProcessConfig.overwrite: mode "w" when TRUE, "w-" when FALSE
    dest_existed,       \* what fs.exists(gcs_check_path) answered
    temp_dir,           \* "none" | "written" (holds the local archive) | "removed"
    old_removed         \* fs.rm removed an object that is no file of the new archive

writevars == <<pub_overwrite, dest_existed, temp_dir, old_removed>>

\* the local write of the archive, with post-write consolidation
\* (_write_zarr_with_consolidation, exercised by src/tests/test_processor.py)
VARIABLES
    local_pc,           \* "open" | "writing" | "done"
    clock,              \* local filesystem time
    local_mtime         \* local_mtime[f]: modification time of file f, None if absent

zarrvars == <<local_pc, clock, local_mtime>>

\* the source type of an ECMWF data source (src/nwpio/config.py,
\* src/nwpio/downloader.py, src/nwpio/sources.py)
VARIABLES
    src_route,            \* "config": DownloadConfig then GribDownloader; "direct": create_data_source
    src_product,          \* the ECMWF product
    given_source_type,    \* "aws" | "gcs" | "none" (None passed) | "unset" (argument left out)
    given_source_bucket,  \* a bucket name, or "unset"
    src_pc,               \* "start" | "configured" | "built"
    cfg_source_type,      \* DownloadConfig.source_type after construction
    cfg_source_bucket,    \* DownloadConfig.source_bucket after construction
    ecmwf_source_type     \* ECMWFSource.source_type

srcvars == <<src_route, src_product, given_source_type, given_source_bucket, src_pc,
             cfg_source_type, cfg_source_bucket, ecmwf_source_type>>

wfvars == <<step, runvars, loadvars, writevars, zarrvars, srcvars>>

vars == <<pubvars, dlvars, valvars, wfvars>>

Hours == 0..23

\* max_lead_time values tried on a product: around zero and around its ceiling
\* for the run command, every value from below zero to above the ceiling otherwise
LeadTimeInputs(p, r) ==
    IF r = "run" THEN {0, 1, Ceiling(p), Ceiling(p) + 1}
    ELSE (0 - 1)..(Ceiling(p) + 1)

RunInit ==
    /\ route \in {"constructor", "yaml", "run"}
    /\ config_product \in Products
    /\ input_cycle \in Hours \cup {None}
    /\ config_max_lead_time \in LeadTimeInputs(config_product, route)
    /\ IF route = "run"
       THEN /\ cli_cycle \in Hours \cup {None}
            /\ validate_before_download \in BOOLEAN
            /\ skip_download \in BOOLEAN
            /\ process_requested \in BOOLEAN
       ELSE /\ cli_cycle = None
            /\ validate_before_download = TRUE
            /\ skip_download = FALSE
            /\ process_requested = FALSE
    /\ config_pc = "raw"
    /\ config_cycle = None
    /\ run_pc = "start"
    /\ exit_code = None
    /\ run_log = {}

RunParked ==
    /\ route = "constructor"
    /\ config_product = "gfs"
    /\ input_cycle = None
    /\ cli_cycle = None
    /\ config_max_lead_time = 1
    /\ validate_before_download = TRUE
    /\ skip_download = FALSE
    /\ process_requested = FALSE
    /\ config_pc = "raw"
    /\ config_cycle = None
    /\ run_pc = "start"
    /\ exit_code = None
    /\ run_log = {}

LoadInit ==
    /\ max_grib_workers \in 1..MaxGribWorkers
    /\ \E n \in 0..NumGribFiles : grib_files = 1..n
    /\ decodes \in [grib_files -> BOOLEAN]
    /\ load_pc = "find"
    /\ grib_idx = 1
    /\ loaded = {}
    /\ gathered = {}
    /\ datasets = <<>>
    /\ load_failed_files = <<>>

LoadParked ==
    /\ max_grib_workers = 1
    /\ grib_files = {}
    /\ decodes = <<>>
    /\ load_pc = "find"
    /\ grib_idx = 1
    /\ loaded = {}
    /\ gathered = {}
    /\ datasets = <<>>
    /\ load_failed_files = <<>>

WriteParked ==
    /\ pub_overwrite = TRUE
    /\ dest_existed = FALSE
    /\ temp_dir = "none"
    /\ old_removed = FALSE

\* the path given to the local write is empty, or holds an archive written
\* earlier (mode "w" replaces it)
ZarrInit ==
    /\ local_pc = "open"
    /\ clock \in 0..1
    /\ \/ local_mtime = [f \in zarr_files |-> None]
       \/ local_mtime = [f \in zarr_files |-> 0]

ZarrParked ==
    /\ local_pc = "open"
    /\ clock = 0
    /\ local_mtime = [f \in zarr_files |-> None]

SourceBuckets == {"ecmwf-forecasts", "ecmwf-open-data", "my-mirror"}

SrcInit ==
    /\ src_route \in {"config", "direct"}
    /\ src_product \in {"gfs", "ecmwf-hres", "ecmwf-ens"}
    /\ given_source_type \in {"aws", "gcs", "none", "unset"}
    /\ given_source_bucket \in SourceBuckets \cup {"unset"}
    /\ src_route = "direct" => given_source_bucket # "unset"
    /\ src_pc = "start"
    /\ cfg_source_type = "unset"
    /\ cfg_source_bucket = "unset"
    /\ ecmwf_source_type = "unset"

SrcParked ==
    /\ src_route = "config"
    /\ src_product = "ecmwf-hres"
    /\ given_source_type = "unset"
    /\ given_source_bucket = "unset"
    /\ src_pc = "start"
    /\ cfg_source_type = "unset"
    /\ cfg_source_bucket = "unset"
    /\ ecmwf_source_type = "unset"

\* the pipeline is at step s, outside the run command
WfAt(s) == step = s /\ RunParked /\ LoadParked /\ WriteParked /\ ZarrParked /\ SrcParked

\* ---------------------------------------------------------------- sources: functions
Min(a, b) == IF a < b THEN a ELSE b

\* list(range(a, b, st)), st > 0
PyRange(a, b, st) ==
    [i \in 1..(IF b > a THEN (b - a + st - 1) \div st ELSE 0) |-> a + (i - 1) * st]

SeqRange(q) == {q[i] : i \in 1..Len(q)}

\* A list of <<key, value>> pairs with keys in lo..hi, in ascending key order,
\* pairs of equal key keeping their order (list.sort / sorted are stable).
RECURSIVE SortPairs(_, _, _)
SortPairs(q, lo, hi) ==
    IF Len(q) <= 1 \/ lo >= hi THEN q
    ELSE LET mid == (lo + hi) \div 2
         IN  SortPairs(SelectSeq(q, LAMBDA x : x[1] <= mid), lo, mid)
             \o SortPairs(SelectSeq(q, LAMBDA x : x[1] > mid), mid + 1, hi)

Values(q) == [i \in 1..Len(q) |-> q[i][2]]

\* the discovered files left in listing order
SortByLeadTime_Unsorted(files) == files

\* files.sort(key=lambda x: x.lead_time)
SortByLeadTime(files) ==
    Values(SortPairs([i \in 1..Len(files) |-> <<files[i], files[i]>>], 0, GfsCeiling))

\* The members of a set of lead times, as a list
Members(S) == SelectSeq([i \in 1..(GfsCeiling + 1) |-> i - 1], LAMBDA h : h \in S)

\* sorted(set(q)) of a list of lead times
SortedSet(q) == SortByLeadTime(Members(SeqRange(q)))

\* Object names carry the lead time as f"{lead_time}h": unpadded decimal digits
\* followed by "h".  NameKey orders lead times as their names order as strings
\* (a digit sorts before "h", which stands as digit 10 of a base-11 numeral).
NameKey(h) ==
    IF h < 10 THEN h * 1331 + 10 * 121
    ELSE IF h < 100 THEN (h \div 10) * 1331 + (h % 10) * 121 + 10 * 11
    ELSE (h \div 100) * 1331 + ((h \div 10) % 10) * 121 + (h % 10) * 11 + 10

\* fs.ls(prefix): the objects of the cycle directory, in name order
Ls(store) ==
    LET q == Members(store)
    IN  Values(SortPairs([i \in 1..Len(q) |-> <<NameKey(q[i]), q[i]>>], 0, 14640))

\* GFSSource.LEAD_TIME_INTERVALS, in dict order
LEAD_TIME_INTERVALS ==
    << [start |-> 0, end |-> 120, interval |-> 1],
       [start |-> 120, end |-> 240, interval |-> 3],
       [start |-> 240, end |-> 384, interval |-> 12] >>

\* GFSSource._generate_lead_times: the loop from interval k on, then sorted(set())
RECURSIVE GfsLeadTimesFrom(_, _)
GfsLeadTimesFrom(m, k) ==
    IF k > Len(LEAD_TIME_INTERVALS) \/ LEAD_TIME_INTERVALS[k].start >= m THEN <<>>
    ELSE LET I == LEAD_TIME_INTERVALS[k]
             max_lt == Min(I.end, m)
         IN  PyRange(I.start, max_lt + 1, I.interval) \o GfsLeadTimesFrom(m, k + 1)

GfsGenerateLeadTimes(m) == SortedSet(GfsLeadTimesFrom(m, 1))

\* ECMWFSource._generate_lead_times
EcmwfGenerateLeadTimes(p, m) ==
    IF p = "ecmwf-ens"
    THEN IF m <= 144 THEN PyRange(0, m + 1, 3)
         ELSE PyRange(0, 145, 3) \o PyRange(150, Min(m + 1, 361), 6)
    ELSE IF m <= 90 THEN PyRange(0, m + 1, 1)
         ELSE PyRange(0, 91, 1) \o PyRange(93, Min(m + 1, 241), 3)

\* ECMWFSource._discover_s3_files / _discover_gcs_official_files
DiscoverFiles(p, m, store, ls_ok) ==
    IF ~ls_ok THEN EcmwfGenerateLeadTimes(p, m)
    ELSE SortByLeadTime(SelectSeq(Ls(store), LAMBDA h : h <= m))

\* DataSource.get_file_list: the lead times of the manifest, in order
get_file_list(p, m, store, ls_ok) ==
    IF p = "gfs" THEN GfsGenerateLeadTimes(m) ELSE DiscoverFiles(p, m, store, ls_ok)

\* GFSSource.get_next_lead_time: the loop from interval k on
RECURSIVE GfsNextLeadTimeFrom(_, _)
GfsNextLeadTimeFrom(m, k) ==
    IF k > Len(LEAD_TIME_INTERVALS) THEN None
    ELSE LET I == LEAD_TIME_INTERVALS[k]
             offset == (m - I.start) % I.interval
             next_lt == IF offset # 0 THEN m + (I.interval - offset) ELSE m + I.interval
             next_intervals == SelectSeq(LEAD_TIME_INTERVALS, LAMBDA J : J.start = I.end)
         IN  IF I.start <= m /\ m < I.end THEN Min(next_lt, I.end)
             ELSE IF m = I.end
                  THEN IF next_intervals # <<>> THEN next_intervals[1].start ELSE None
                  ELSE GfsNextLeadTimeFrom(m, k + 1)

GfsNextLeadTime(m) == GfsNextLeadTimeFrom(m, 1)

\* the cadence rule applied whatever the source type
EcmwfNextLeadTime_IgnoresSourceType(p, st, m) ==
    IF p = "ecmwf-ens"
    THEN IF m < 144 THEN Min(m + 3, 144) ELSE IF m < 360 THEN Min(m + 6, 360) ELSE None
    ELSE IF m < 90 THEN Min(m + 1, 90) ELSE IF m < 240 THEN Min(m + 3, 240) ELSE None

\* ECMWFSource.get_next_lead_time
EcmwfNextLeadTime(p, st, m) ==
    IF st \in {"aws", "gcs"} THEN None
    ELSE IF p = "ecmwf-ens"
    THEN IF m < 144 THEN Min(m + 3, 144)
         ELSE IF m = 144 THEN 150
         ELSE IF m < 360 THEN Min(m + 6, 360)
         ELSE None
    ELSE IF m < 90 THEN Min(m + 1, 90)
         ELSE IF m = 90 THEN 93
         ELSE IF m < 240 THEN Min(m + 3, 240)
         ELSE None

get_next_lead_time(p, st, m) ==
    IF p = "gfs" THEN GfsNextLeadTime(m) ELSE EcmwfNextLeadTime(p, st, m)

\* ---------------------------------------------------------------- sources: Init
\* The first cadence lead time after h, None past the ceiling.
RECURSIVE CadenceNext(_, _)
CadenceNext(p, h) ==
    IF h >= Ceiling(p) THEN None
    ELSE IF h + 1 \in Cadence(p) THEN h + 1
    ELSE CadenceNext(p, h + 1)

\* The k last cadence lead times up to h.
RECURSIVE CadenceLast(_, _, _)
CadenceLast(p, h, k) ==
    IF k = 0 \/ h < 0 THEN {}
    ELSE IF h \in Cadence(p) THEN {h} \cup CadenceLast(p, h - 1, k - 1)
    ELSE CadenceLast(p, h - 1, k)

\* Objects the upstream may not have published yet: the tail of the requested
\* range and the lead time that follows it.
Unpublished(p, m) == CadenceLast(p, m, StoreWindow) \cup ({CadenceNext(p, m)} \ {None})

ValConstructed ==
    /\ val_pc = "constructed"
    /\ val_file_specs = <<>>
    /\ next_lead_time = None
    /\ validation_specs = <<>>
    /\ val_missing_files = <<>>
    /\ val_available_files = <<>>
    /\ required_missing = <<>>
    /\ validation_missing = <<>>
    /\ lead_times = <<>>
    /\ upstream_at_validation = {}
    /\ fetch_file_specs = <<>>

ValInit ==
    /\ product \in Products
    /\ source_type \in (IF product = "gfs" THEN {"gcs"} ELSE SourceTypes)
    /\ max_lead_time \in 1..Ceiling(product)
    /\ listing_ok \in (IF product = "gfs" THEN {TRUE} ELSE BOOLEAN)
    /\ \/ \E late \in SUBSET Unpublished(product, max_lead_time) :
                upstream = Cadence(product) \ late
       \/ upstream = {}
    /\ ValConstructed

\* the data source while another engine runs
ValParked ==
    /\ product = "gfs"
    /\ source_type = "gcs"
    /\ max_lead_time = 1
    /\ listing_ok = TRUE
    /\ upstream = GfsCadence
    /\ ValConstructed


\* ---------------------------------------------------------------- download: Init
\* GribDownloader.__init__ and the stores it will work on.  Destination objects
\* are either absent or left by an earlier run ("old").
DlConstructed ==
    /\ dl_pc = "idle"
    /\ run = 0
    /\ dl_collected = {}
    /\ downloaded_files = <<>>
    /\ failed_files = <<>>
    /\ dl_task = [s \in file_specs |-> "queued"]
    /\ dl_result = [s \in file_specs |-> "none"]
    /\ dest_at_start = dest_store
    /\ skipped = {}
    /\ source_reads = {}
    /\ dest_writes = {}
    /\ prev_downloaded = {}

DlInit ==
    /\ overwrite \in BOOLEAN
    /\ dest_kind \in {"gs", "local"}
    /\ max_workers \in 1..MaxWorkers
    /\ source_store \in SUBSET file_specs
    /\ dest_store \in [dest_paths -> {"absent", "old"}]
    /\ DlConstructed

\* the downloader while only the publish engine runs
DlParked ==
    /\ overwrite = FALSE
    /\ dest_kind = "gs"
    /\ max_workers = MaxWorkers
    /\ source_store = file_specs
    /\ dest_store = [s \in dest_paths |-> "absent"]
    /\ DlConstructed

\* ---------------------------------------------------------------- publish: Init
PubInit ==
    /\ upload_max_retries \in 0..MaxRetries
    /\ verify_upload \in BOOLEAN
    /\ max_upload_workers \in 1..MaxWorkers
    /\ pc = "idle"
    /\ collected = {}
    /\ failed_uploads = <<>>
    /\ error = NoError
    /\ checked = {}
    /\ task = [f \in zarr_files |-> "queued"]
    /\ attempt = [f \in zarr_files |-> 0]
    /\ error_msg = [f \in zarr_files |-> "none"]
    /\ result = [f \in zarr_files |-> NoResult]
    /\ gcs = {}
    /\ store_lost = FALSE
    /\ slept = [f \in zarr_files |-> <<>>]

\* ---------------------------------------------------------------- publish: actions
Running == {f \in zarr_files : task[f] = "running"}

\* executor.submit(upload_file_with_retry, f) for f in zarr_files: every file
\* of the archive, .zmetadata included, goes to the same pool.
SubmittedFiles == zarr_files

Submit ==
    /\ pc = "idle"
    /\ pc' = "uploading"
    /\ UNCHANGED <<upload_max_retries, verify_upload, max_upload_workers, collected,
                   failed_uploads, error, checked, task, attempt, error_msg, result,
                   gcs, store_lost,
                   slept, dlvars, valvars, wfvars>>

\* A pool worker takes a queued task (rglob order is file-system order: any).
StartTask(f) ==
    /\ pc = "uploading"
    /\ f \in SubmittedFiles
    /\ task[f] = "queued"
    /\ Cardinality(Running) < max_upload_workers
    /\ task' = [task EXCEPT ![f] = "running"]
    /\ UNCHANGED <<upload_max_retries, verify_upload, max_upload_workers, pc, collected,
                   failed_uploads, error, checked, attempt, error_msg, result,
                   gcs, store_lost,
                   slept, dlvars, valvars, wfvars>>

MoreAttempts_OneMore(f) == attempt[f] <= upload_max_retries

\* for attempt in range(max_retries)
MoreAttempts(f) == attempt[f] < upload_max_retries

\* blob.upload_from_filename succeeds: return blob_name, True, ""
UploadOk(f) ==
    /\ task[f] = "running"
    /\ MoreAttempts(f)
    /\ attempt' = [attempt EXCEPT ![f] = @ + 1]
    /\ gcs' = gcs \cup {f}
    /\ result' = [result EXCEPT ![f] = [success |-> TRUE, error_msg |-> ""]]
    /\ task' = [task EXCEPT ![f] = "done"]
    /\ UNCHANGED <<upload_max_retries, verify_upload, max_upload_workers, pc, collected,
                   failed_uploads, error, checked, error_msg, store_lost,
                   slept, dlvars, valvars, wfvars>>

\* if attempt < max_retries - 1: sleep and retry, else give up
IsLastAttempt(f) == ~(attempt[f] < upload_max_retries - 1)

wait_time_Linear(a) == a + 1

\* wait_time = 2**attempt, attempt being the index of the attempt that failed
wait_time(a) == 2 ^ a

\* blob.upload_from_filename raises e: the last attempt returns the failure,
\* an earlier one sleeps wait_time seconds and the loop goes round
UploadFail(f, e) ==
    /\ task[f] = "running"
    /\ MoreAttempts(f)
    /\ attempt' = [attempt EXCEPT ![f] = @ + 1]
    /\ error_msg' = [error_msg EXCEPT ![f] = e]
    /\ IF IsLastAttempt(f)
       THEN /\ result' = [result EXCEPT ![f] = [success |-> FALSE, error_msg |-> e]]
            /\ task' = [task EXCEPT ![f] = "done"]
            /\ UNCHANGED slept
       ELSE /\ slept' = [slept EXCEPT ![f] = Append(@, wait_time(attempt[f]))]
            /\ UNCHANGED <<result, task>>
    /\ UNCHANGED <<upload_max_retries, verify_upload, max_upload_workers, pc, collected,
                   failed_uploads, error, checked, gcs, store_lost,
                   dlvars, valvars, wfvars>>

\* the loop body never ran: return blob_name, False, "Max retries exceeded"
LoopExhausted(f) ==
    /\ task[f] = "running"
    /\ ~MoreAttempts(f)
    /\ result' = [result EXCEPT ![f] = [success |-> FALSE, error_msg |-> MaxRetriesExceeded]]
    /\ task' = [task EXCEPT ![f] = "done"]
    /\ UNCHANGED <<upload_max_retries, verify_upload, max_upload_workers, pc, collected,
                   failed_uploads, error, checked, attempt, error_msg, gcs, store_lost,
                   slept, dlvars, valvars, wfvars>>

Collect_FirstFailureOnly(f) ==
    /\ pc = "uploading"
    /\ task[f] = "done"
    /\ f \notin collected
    /\ collected' = collected \cup {f}
    /\ failed_uploads' = IF result[f].success \/ failed_uploads # <<>>
                         THEN failed_uploads
                         ELSE Append(failed_uploads, <<f, result[f].error_msg>>)
    /\ UNCHANGED <<upload_max_retries, verify_upload, max_upload_workers, pc,
                   error, checked, task, attempt, error_msg, result, gcs, store_lost,
                   slept, dlvars, valvars, wfvars>>

\* for future in as_completed(futures): one finished future is handled
Collect(f) ==
    /\ pc = "uploading"
    /\ task[f] = "done"
    /\ f \notin collected
    /\ collected' = collected \cup {f}
    /\ failed_uploads' = IF result[f].success
                         THEN failed_uploads
                         ELSE Append(failed_uploads, <<f, result[f].error_msg>>)
    /\ UNCHANGED <<upload_max_retries, verify_upload, max_upload_workers, pc,
                   error, checked, task, attempt, error_msg, result, gcs, store_lost,
                   slept, dlvars, valvars, wfvars>>

\* as_completed is exhausted and the executor's with-block has exited
PoolDrained == pc = "uploading" /\ collected = SubmittedFiles

\* if failed_uploads: raise RuntimeError("Failed to upload n/m files: ...")
ReportFailed ==
    /\ PoolDrained
    /\ failed_uploads # <<>>
    /\ pc' = "upload_failed"
    /\ error' = [kind |-> "Failed to upload",
                 files |-> {failed_uploads[i] : i \in 1..Len(failed_uploads)},
                 count |-> Len(failed_uploads)]
    /\ UNCHANGED <<upload_max_retries, verify_upload, max_upload_workers, collected,
                   failed_uploads, checked, task, attempt, error_msg, result,
                   gcs, store_lost,
                   slept, dlvars, valvars, wfvars>>

\* verify_upload is off: _upload_zarr_to_gcs returns
ReturnUnverified ==
    /\ PoolDrained
    /\ failed_uploads = <<>>
    /\ ~verify_upload
    /\ pc' = "uploaded"
    /\ UNCHANGED <<upload_max_retries, verify_upload, max_upload_workers, collected,
                   failed_uploads, error, checked, task, attempt, error_msg, result,
                   gcs, store_lost,
                   slept, dlvars, valvars, wfvars>>

\* (mutant) the existence check skips the consolidated-metadata file
MissingFiles_ChunksOnly(local_files) == {f \in local_files \ {ZMETADATA} : f \notin gcs}

\* _verify_zarr_upload: fs.exists for every local file
MissingFiles(local_files) == {f \in local_files : f \notin gcs}

VerifyZarrUpload ==
    /\ PoolDrained
    /\ failed_uploads = <<>>
    /\ verify_upload
    /\ checked' = zarr_files
    /\ LET missing_files == MissingFiles(zarr_files)
       IN IF missing_files # {}
          THEN /\ pc' = "verify_failed"
               /\ error' = [kind |-> "Upload verification failed",
                            files |-> missing_files,
                            count |-> Cardinality(missing_files)]
          ELSE /\ pc' = "verified"
               /\ error' = error
    /\ UNCHANGED <<upload_max_retries, verify_upload, max_upload_workers, collected,
                   failed_uploads, task, attempt, error_msg, result, gcs, store_lost,
                   slept, dlvars, valvars, wfvars>>

\* Environment: the store loses an object after an apparently successful
\* upload (the gap fs.exists is there to detect).
StoreLoss(f) ==
    /\ PoolDrained
    /\ failed_uploads = <<>>
    /\ f \in gcs
    /\ gcs' = gcs \ {f}
    /\ store_lost' = TRUE
    /\ UNCHANGED <<upload_max_retries, verify_upload, max_upload_workers, pc, collected,
                   failed_uploads, error, checked, task, attempt, error_msg, result,
                   slept, dlvars, valvars, wfvars>>

InitPublish == PubInit /\ DlParked /\ ValParked /\ WfAt("process")

\* the processor while only the fetch engine runs
PubParked ==
    /\ PubInit
    /\ upload_max_retries = MaxRetries
    /\ verify_upload = TRUE
    /\ max_upload_workers = MaxWorkers

NextPublish ==
    \/ Submit
    \/ \E f \in zarr_files : StartTask(f)
    \/ \E f \in zarr_files : UploadOk(f)
    \/ \E f \in zarr_files : \E e \in Errors : UploadFail(f, e)
    \/ \E f \in zarr_files : LoopExhausted(f)
    \/ \E f \in zarr_files : Collect(f)
    \/ ReportFailed
    \/ ReturnUnverified
    \/ VerifyZarrUpload
    \/ \E f \in zarr_files : StoreLoss(f)

SpecPublish == InitPublish /\ [][NextPublish]_vars

PublishTypeOK ==
    /\ pc \in {"idle", "uploading", "upload_failed", "uploaded", "verify_failed", "verified"}
    /\ collected \subseteq zarr_files
    /\ gcs \subseteq zarr_files
    /\ \A f \in zarr_files : attempt[f] \in 0..MaxRetries

\* ---------------------------------------------------------------- publish: claims
ChunksDone == \A c \in DataChunks : task[c] = "done"
Exhausted(f) == task[f] = "done" /\ ~result[f].success
Terminal == pc \in {"upload_failed", "uploaded", "verify_failed", "verified"}

\* C1: the upload of the control file (.zmetadata) is started only after the
\* upload of every other file of the archive has completed, so it is the last
\* file uploaded.
C1_ControlFileUploadedLast ==
    task[ZMETADATA] # "queued" => ChunksDone

\* C2: if at least one data chunk exhausts its retries, the control file is
\* never uploaded: the destination holds a subset of the data chunks and not
\* the control file.
C2_NoControlFileAfterChunkFailure ==
    (\E c \in DataChunks : Exhausted(c)) => (ZMETADATA \notin gcs /\ gcs \subseteq DataChunks)

\* C3: publishing into an empty destination prefix (and the store keeping what
\* it accepted), whenever the control file exists at the destination every
\* data chunk exists at the destination.
C3_ControlFileImpliesAllChunks ==
    ~store_lost => (ZMETADATA \in gcs => DataChunks \subseteq gcs)

\* C4: nothing that follows phase 1 (the control-file upload, the failure
\* report, the verification, the return) starts while a data-chunk task is
\* still queued or running.
AfterPhaseOne ==
    \/ Terminal
    \/ checked # {}
    \/ task[ZMETADATA] = "running"
    \/ attempt[ZMETADATA] > 0
    \/ ZMETADATA \in gcs

C4_PhaseOneBarrier == AfterPhaseOne => ChunksDone

\* C5: when publish fails because of upload failures, the error lists exactly
\* the files that exhausted their retries, each with the error of its last
\* attempt, and the reported count is the number of failed files.
C5_FailureReportExact ==
    pc = "upload_failed" =>
        /\ error.kind = "Failed to upload"
        /\ error.files = {<<f, error_msg[f]>> : f \in {g \in zarr_files : Exhausted(g)}}
        /\ \A p \in error.files : attempt[p[1]] >= 1 /\ p[2] \in Errors
        /\ error.count = Cardinality({g \in zarr_files : Exhausted(g)})

\* C6: a file whose every attempt fails is attempted upload_max_retries + 1
\* times (one first attempt and R retries) before it is reported as failed,
\* and a file whose upload succeeded is not attempted again.
C6_RetriesAfterFirstAttempt ==
    \A f \in zarr_files :
        /\ Exhausted(f) => attempt[f] = upload_max_retries + 1
        /\ (task[f] = "done" /\ result[f].success) => ~ENABLED UploadOk(f)

\* C7: with verification on and every upload successful, every local file is
\* checked at the destination and a gap fails publish with a verification
\* error (distinct from the upload-failure error) naming exactly the missing
\* files; with verification off, or after an upload failure, nothing is checked.
C7_VerificationExact ==
    /\ pc \in {"verify_failed", "verified"} =>
          /\ verify_upload
          /\ failed_uploads = <<>>
          /\ \A f \in zarr_files : task[f] = "done" /\ result[f].success
          /\ checked = zarr_files
    /\ pc = "verify_failed" =>
          /\ error.kind = "Upload verification failed"
          /\ error.files = zarr_files \ gcs
          /\ error.files # {}
          /\ error.count = Cardinality(zarr_files \ gcs)
    /\ pc = "verified" => (zarr_files \subseteq gcs /\ error = NoError)
    /\ pc = "uploaded" => ~verify_upload
    /\ ~verify_upload => checked = {}
    /\ pc = "upload_failed" => (checked = {} /\ error.kind = "Failed to upload")

C7_Witness ==
    /\ pc = "verify_failed"
    /\ ZMETADATA \in error.files
    /\ error.count = 1

\* C8: one publish invocation moves only along
\* Idle -> UploadingChunks -> {ChunksFailed | ChunksComplete} -> UploadingControl
\* -> {ControlFailed | Published} -> {VerifyFailed | Verified}, no state skipped
\* or revisited, and nothing happens after a terminal state.
ControlStarted == task[ZMETADATA] # "queued"

Phase ==
    CASE pc = "idle" -> "Idle"
      [] pc = "uploading" /\ ~ControlStarted /\ ~(ChunksDone /\ DataChunks \subseteq collected)
            -> "UploadingChunks"
      [] pc = "uploading" /\ ~ControlStarted /\ ChunksDone /\ DataChunks \subseteq collected
            -> IF \E c \in DataChunks : Exhausted(c) THEN "ChunksFailed" ELSE "ChunksComplete"
      [] pc = "uploading" /\ ControlStarted -> "UploadingControl"
      [] pc = "upload_failed" ->
            IF \E c \in DataChunks : Exhausted(c) THEN "ChunksFailed" ELSE "ControlFailed"
      [] pc = "uploaded" -> "Published"
      [] pc = "verify_failed" -> "VerifyFailed"
      [] pc = "verified" -> "Verified"

PhaseEdges ==
    { <<"Idle", "UploadingChunks">>,
      <<"UploadingChunks", "ChunksFailed">>,
      <<"UploadingChunks", "ChunksComplete">>,
      <<"ChunksComplete", "UploadingControl">>,
      <<"UploadingControl", "ControlFailed">>,
      <<"UploadingControl", "Published">>,
      <<"Published", "VerifyFailed">>,
      <<"Published", "Verified">> }

TerminalPhases == {"ChunksFailed", "ControlFailed", "VerifyFailed", "Verified"}

C8_PublishStateMachine ==
    [][ /\ (Phase' = Phase \/ <<Phase, Phase'>> \in PhaseEdges)
        /\ (Phase \in TerminalPhases => UNCHANGED <<gcs, attempt, checked>>) ]_vars

\* ---------------------------------------------------------------- download: actions
\* download(): executor.submit(self._download_file, spec) for spec in file_specs
DlSubmit ==
    /\ dl_pc \in {"idle", "returned"}
    /\ run < MaxRuns
    /\ dl_pc' = "downloading"
    /\ run' = run + 1
    /\ prev_downloaded' = {downloaded_files[i] : i \in 1..Len(downloaded_files)}
    /\ dl_collected' = {}
    /\ downloaded_files' = <<>>
    /\ failed_files' = <<>>
    /\ dl_task' = [s \in file_specs |-> "queued"]
    /\ dl_result' = [s \in file_specs |-> "none"]
    /\ dest_at_start' = dest_store
    /\ skipped' = {}
    /\ source_reads' = {}
    /\ dest_writes' = {}
    /\ UNCHANGED <<overwrite, dest_kind, max_workers, source_store, dest_store, pubvars, valvars, wfvars>>

DlRunning == {s \in file_specs : dl_task[s] = "running"}

\* a pool worker takes a queued _download_file task
DlStart(s) ==
    /\ dl_pc = "downloading"
    /\ dl_task[s] = "queued"
    /\ Cardinality(DlRunning) < max_workers
    /\ dl_task' = [dl_task EXCEPT ![s] = "running"]
    /\ UNCHANGED <<overwrite, dest_kind, max_workers, source_store, dest_store, dl_pc, run,
                   dl_collected, downloaded_files, failed_files, dl_result,
                   dest_at_start, skipped, source_reads, dest_writes, prev_downloaded,
                   pubvars, valvars, wfvars>>

\* (mutant) the probe looks at an object that is never there
DestExists_WrongObject(s) == dest_store[s] = "no such object"

\* gcs_blob_exists(dest_bucket, dest_blob) / local_path.exists()
DestExists(s) == dest_store[s] # "absent"

\* (mutant) the overwrite flag is tested the wrong way round
SkipExisting_Inverted(s) == overwrite /\ DestExists(s)

\* if not self.config.overwrite and <destination exists>
SkipExisting(s) == ~overwrite /\ DestExists(s)

\* return True, spec.destination_path without touching source or destination
DlSkip(s) ==
    /\ dl_task[s] = "running"
    /\ SkipExisting(s)
    /\ dl_result' = [dl_result EXCEPT ![s] = "true"]
    /\ dl_task' = [dl_task EXCEPT ![s] = "done"]
    /\ skipped' = skipped \cup {s}
    /\ UNCHANGED <<overwrite, dest_kind, max_workers, source_store, dest_store, dl_pc, run,
                   dl_collected, downloaded_files, failed_files,
                   dest_at_start, source_reads, dest_writes, prev_downloaded, pubvars, valvars, wfvars>>

\* local_path.parent.mkdir raises (outside the try): the exception leaves
\* _download_file and is caught by download()
DlRaises(s) ==
    /\ dl_task[s] = "running"
    /\ ~SkipExisting(s)
    /\ dest_kind = "local"
    /\ dl_result' = [dl_result EXCEPT ![s] = "raised"]
    /\ dl_task' = [dl_task EXCEPT ![s] = "done"]
    /\ UNCHANGED <<overwrite, dest_kind, max_workers, source_store, dest_store, dl_pc, run,
                   dl_collected, downloaded_files, failed_files,
                   dest_at_start, skipped, source_reads, dest_writes, prev_downloaded,
                   pubvars, valvars, wfvars>>

\* (mutant) the destination file is opened before the source is found missing
DlSourceMissing_CreatesDest(s) ==
    /\ dl_task[s] = "running"
    /\ ~SkipExisting(s)
    /\ s \notin source_store
    /\ source_reads' = source_reads \cup {s}
    /\ dest_writes' = dest_writes \cup {s}
    /\ dest_store' = [dest_store EXCEPT ![s] = "partial"]
    /\ dl_result' = [dl_result EXCEPT ![s] = "false"]
    /\ dl_task' = [dl_task EXCEPT ![s] = "done"]
    /\ UNCHANGED <<overwrite, dest_kind, max_workers, source_store, dl_pc, run,
                   dl_collected, downloaded_files, failed_files,
                   dest_at_start, skipped, prev_downloaded, pubvars, valvars, wfvars>>

\* the source object does not exist: gcs_blob_exists(source) is False, or
\* opening it raises inside the try; success = False, nothing written
DlSourceMissing(s) ==
    /\ dl_task[s] = "running"
    /\ ~SkipExisting(s)
    /\ s \notin source_store
    /\ source_reads' = source_reads \cup {s}
    /\ dl_result' = [dl_result EXCEPT ![s] = "false"]
    /\ dl_task' = [dl_task EXCEPT ![s] = "done"]
    /\ UNCHANGED <<overwrite, dest_kind, max_workers, source_store, dest_store, dl_pc, run,
                   dl_collected, downloaded_files, failed_files,
                   dest_at_start, skipped, dest_writes, prev_downloaded, pubvars, valvars, wfvars>>

\* the copy fails before anything is written: copy_blob / s3 read /
\* upload_from_string / fs.open raises; success = False
DlTransferFails(s) ==
    /\ dl_task[s] = "running"
    /\ ~SkipExisting(s)
    /\ s \in source_store
    /\ source_reads' = source_reads \cup {s}
    /\ dl_result' = [dl_result EXCEPT ![s] = "false"]
    /\ dl_task' = [dl_task EXCEPT ![s] = "done"]
    /\ UNCHANGED <<overwrite, dest_kind, max_workers, source_store, dest_store, dl_pc, run,
                   dl_collected, downloaded_files, failed_files,
                   dest_at_start, skipped, dest_writes, prev_downloaded, pubvars, valvars, wfvars>>

\* local destination: open(local_path, "wb") has created/truncated the file
\* when src.read() raises; success = False and a partial file stays behind
DlTransferFailsPartWay(s) ==
    /\ dl_task[s] = "running"
    /\ ~SkipExisting(s)
    /\ s \in source_store
    /\ dest_kind = "local"
    /\ source_reads' = source_reads \cup {s}
    /\ dest_writes' = dest_writes \cup {s}
    /\ dest_store' = [dest_store EXCEPT ![s] = "partial"]
    /\ dl_result' = [dl_result EXCEPT ![s] = "false"]
    /\ dl_task' = [dl_task EXCEPT ![s] = "done"]
    /\ UNCHANGED <<overwrite, dest_kind, max_workers, source_store, dl_pc, run,
                   dl_collected, downloaded_files, failed_files,
                   dest_at_start, skipped, prev_downloaded, pubvars, valvars, wfvars>>

\* (mutant) the source object is moved, not copied
DlTransferOk_Moves(s) ==
    /\ dl_task[s] = "running"
    /\ ~SkipExisting(s)
    /\ s \in source_store
    /\ source_reads' = source_reads \cup {s}
    /\ dest_writes' = dest_writes \cup {s}
    /\ source_store' = source_store \ {s}
    /\ dest_store' = [dest_store EXCEPT ![s] = "copied"]
    /\ dl_result' = [dl_result EXCEPT ![s] = "true"]
    /\ dl_task' = [dl_task EXCEPT ![s] = "done"]
    /\ UNCHANGED <<overwrite, dest_kind, max_workers, dl_pc, run,
                   dl_collected, downloaded_files, failed_files,
                   dest_at_start, skipped, prev_downloaded, pubvars, valvars, wfvars>>

\* the copy completes; success = True
DlTransferOk(s) ==
    /\ dl_task[s] = "running"
    /\ ~SkipExisting(s)
    /\ s \in source_store
    /\ source_reads' = source_reads \cup {s}
    /\ dest_writes' = dest_writes \cup {s}
    /\ dest_store' = [dest_store EXCEPT ![s] = "copied"]
    /\ dl_result' = [dl_result EXCEPT ![s] = "true"]
    /\ dl_task' = [dl_task EXCEPT ![s] = "done"]
    /\ UNCHANGED <<overwrite, dest_kind, max_workers, source_store, dl_pc, run,
                   dl_collected, downloaded_files, failed_files,
                   dest_at_start, skipped, prev_downloaded, pubvars, valvars, wfvars>>

\* (mutant) the except branch forgets failed_files.append
DlCollect_DropsRaised(s) ==
    /\ dl_pc = "downloading"
    /\ dl_task[s] = "done"
    /\ s \notin dl_collected
    /\ dl_collected' = dl_collected \cup {s}
    /\ IF dl_result[s] = "true"
       THEN /\ downloaded_files' = Append(downloaded_files, s)
            /\ UNCHANGED failed_files
       ELSE IF dl_result[s] = "false"
       THEN /\ failed_files' = Append(failed_files, s)
            /\ UNCHANGED downloaded_files
       ELSE UNCHANGED <<downloaded_files, failed_files>>
    /\ UNCHANGED <<overwrite, dest_kind, max_workers, source_store, dest_store, dl_pc, run,
                   dl_task, dl_result, dest_at_start, skipped, source_reads,
                   dest_writes, prev_downloaded, pubvars, valvars, wfvars>>

\* for future in as_completed(future_to_spec): success -> downloaded_files,
\* False or exception -> failed_files
DlCollect(s) ==
    /\ dl_pc = "downloading"
    /\ dl_task[s] = "done"
    /\ s \notin dl_collected
    /\ dl_collected' = dl_collected \cup {s}
    /\ IF dl_result[s] = "true"
       THEN /\ downloaded_files' = Append(downloaded_files, s)
            /\ UNCHANGED failed_files
       ELSE /\ failed_files' = Append(failed_files, s)
            /\ UNCHANGED downloaded_files
    /\ UNCHANGED <<overwrite, dest_kind, max_workers, source_store, dest_store, dl_pc, run,
                   dl_task, dl_result, dest_at_start, skipped, source_reads,
                   dest_writes, prev_downloaded, pubvars, valvars, wfvars>>

\* (mutant) the first recorded failure ends the batch
DlReturn_EarlyAbort ==
    /\ dl_pc = "downloading"
    /\ (dl_collected = file_specs \/ failed_files # <<>>)
    /\ dl_pc' = "returned"
    /\ UNCHANGED <<overwrite, dest_kind, max_workers, source_store, dest_store, run,
                   dl_collected, downloaded_files, failed_files, dl_task, dl_result,
                   dest_at_start, skipped, source_reads, dest_writes, prev_downloaded,
                   pubvars, valvars, wfvars>>

\* the executor's with-block exits; return downloaded_files
DlReturn ==
    /\ dl_pc = "downloading"
    /\ dl_collected = file_specs
    /\ dl_pc' = "returned"
    /\ UNCHANGED <<overwrite, dest_kind, max_workers, source_store, dest_store, run,
                   dl_collected, downloaded_files, failed_files, dl_task, dl_result,
                   dest_at_start, skipped, source_reads, dest_writes, prev_downloaded,
                   pubvars, valvars, wfvars>>

InitDownload == DlInit /\ PubParked /\ ValParked /\ WfAt("download")

NextDownload ==
    \/ DlSubmit
    \/ \E s \in file_specs : DlStart(s)
    \/ \E s \in file_specs : DlSkip(s)
    \/ \E s \in file_specs : DlRaises(s)
    \/ \E s \in file_specs : DlSourceMissing(s)
    \/ \E s \in file_specs : DlTransferFails(s)
    \/ \E s \in file_specs : DlTransferFailsPartWay(s)
    \/ \E s \in file_specs : DlTransferOk(s)
    \/ \E s \in file_specs : DlCollect(s)
    \/ DlReturn

SpecDownload == InitDownload /\ [][NextDownload]_vars

DownloadTypeOK ==
    /\ dl_pc \in {"idle", "downloading", "returned"}
    /\ run \in 0..MaxRuns
    /\ dl_collected \subseteq file_specs
    /\ \A s \in file_specs : dest_store[s] \in {"absent", "old", "copied", "partial"}

Downloaded == {downloaded_files[i] : i \in 1..Len(downloaded_files)}

\* ---------------------------------------------------------------- download: claims
\* C9: when overwrite is false and the destination object already exists,
\* _download_file reports success for that file without reading the source and
\* without writing the destination, which is left unchanged.
C9_SkipLeavesDestinationUnchanged ==
    \A s \in file_specs :
        (~overwrite /\ dest_at_start[s] # "absent" /\ dl_task[s] = "done") =>
            /\ dl_result[s] = "true"
            /\ s \notin source_reads
            /\ s \notin dest_writes
            /\ dest_store[s] = dest_at_start[s]

C9_Witness ==
    /\ ~overwrite
    /\ \E s \in file_specs :
          /\ dest_at_start[s] = "old"
          /\ dl_task[s] = "done"
          /\ s \in skipped
          /\ s \in source_store
    /\ \E s \in file_specs : s \in dest_writes

C11_BatchDrains ==
    dl_pc = "returned" =>
        \A s \in file_specs :
            /\ dl_task[s] = "done"
            /\ dl_result[s] # "none"
            /\ s \in dl_collected
            /\ (s \in skipped \/ s \in source_reads \/ dl_result[s] = "raised")

C11_Witness ==
    /\ dl_pc = "returned"
    /\ \E s \in file_specs : dl_result[s] = "raised"
    /\ \E s \in file_specs : dl_result[s] = "true" /\ s \in dest_writes

\* C12: every manifest entry is recorded exactly once, as succeeded or as
\* failed, so succeeded + failed = n when download returns; entries skipped as
\* already existing count as succeeded.
FailedSet == {failed_files[i] : i \in 1..Len(failed_files)}

C12_EveryEntryRecordedOnce ==
    /\ Len(downloaded_files) = Cardinality(Downloaded)
    /\ Len(failed_files) = Cardinality(FailedSet)
    /\ Downloaded \cap FailedSet = {}
    /\ Downloaded \cup FailedSet = dl_collected
    /\ (skipped \cap dl_collected) \subseteq Downloaded
    /\ dl_pc = "returned" =>
          /\ Len(downloaded_files) + Len(failed_files) = NumSpecs
          /\ Downloaded \cup FailedSet = file_specs

C12_Witness ==
    /\ dl_pc = "returned"
    /\ ~overwrite
    /\ skipped # {}
    /\ dest_writes # {}
    /\ Len(downloaded_files) = NumSpecs
    /\ failed_files = <<>>

\* C13 as stated: a manifest file whose source object does not exist is
\* recorded as a failure of that file, and no destination object is created
\* for it.
C13_MissingSourceIsFailure ==
    \A s \in file_specs \ source_store :
        /\ dl_task[s] = "done" => (dl_result[s] # "true" /\ dest_store[s] = dest_at_start[s])
        /\ s \in dl_collected => s \in FailedSet

\* C13 amended: the same, for a file that is not skipped as already existing
\* (overwrite on, or no destination object when the call starts); a file whose
\* destination exists with overwrite off is reported as succeeded without its
\* source being looked at.
C13_MissingSourceIsFailureUnlessSkipped ==
    \A s \in file_specs \ source_store :
        IF overwrite \/ dest_at_start[s] = "absent"
        THEN /\ dl_task[s] = "done" =>
                    (dl_result[s] # "true" /\ dest_store[s] = dest_at_start[s])
             /\ s \in dl_collected => s \in FailedSet
             /\ \A t \in file_specs \ {s} :
                    (dl_pc = "returned" /\ t \in source_store) => dl_result[t] # "none"
        ELSE dl_task[s] = "done" => (s \in skipped /\ s \notin source_reads)

C13_Witness ==
    /\ dl_pc = "returned"
    /\ \E s \in file_specs \ source_store :
          /\ dest_at_start[s] = "absent"
          /\ dl_result[s] = "false"
          /\ s \in FailedSet
          /\ dest_store[s] = "absent"
    /\ \E t \in source_store : dl_result[t] = "true" /\ t \in dest_writes

\* C14: re-running download with overwrite=false after a download in which
\* some files failed never skips a file that failed earlier: the files
\* skipped as already existing are files that succeeded in the earlier call.
C14_FailedFileNeverSkipped ==
    (run >= 2 /\ ~overwrite) => skipped \subseteq prev_downloaded

\* ---------------------------------------------------------------- sources: actions
\* data_source.get_file_list()
GetFileList ==
    /\ val_pc = "constructed"
    /\ val_file_specs' = get_file_list(product, max_lead_time, upstream, listing_ok)
    /\ val_pc' = "listed"
    /\ UNCHANGED <<product, source_type, max_lead_time, upstream, listing_ok,
                   next_lead_time, validation_specs, val_missing_files, val_available_files,
                   required_missing, validation_missing, lead_times,
                   upstream_at_validation, fetch_file_specs, pubvars, dlvars, wfvars>>

\* data_source.get_next_lead_time()
GetNextLeadTime ==
    /\ val_pc = "listed"
    /\ next_lead_time' = get_next_lead_time(product, source_type, max_lead_time)
    /\ val_pc' = "scheduled"
    /\ UNCHANGED <<product, source_type, max_lead_time, upstream, listing_ok,
                   val_file_specs, validation_specs, val_missing_files, val_available_files,
                   required_missing, validation_missing, lead_times,
                   upstream_at_validation, fetch_file_specs, pubvars, dlvars, wfvars>>

\* fs.exists(cloud_path) of the object of lead time h
Exists(h) == h \in upstream

\* The sources a DownloadConfig can describe: source_type is "gcs", "aws" or
\* unset, and an unset one is inferred as one of the two.
Configurable == product = "gfs" \/ source_type \in {"aws", "gcs"}

\* GribDownloader.validate_availability: "valid" when it returns, "not_ready"
\* when it raises FileNotFoundError
ValidateAvailability ==
    LET file_specs_ == get_file_list(product, max_lead_time, upstream, listing_ok)
        next_ == get_next_lead_time(product, source_type, max_lead_time)
        specs == IF next_ # None THEN Append(file_specs_, next_) ELSE file_specs_
        missing == SelectSeq(specs, LAMBDA h : ~Exists(h))
        available == SelectSeq(specs, LAMBDA h : Exists(h))
    IN  /\ val_pc = "constructed"
        /\ Configurable
        /\ val_file_specs' = file_specs_
        /\ next_lead_time' = next_
        /\ validation_specs' = specs
        /\ val_missing_files' = missing
        /\ val_available_files' = available
        /\ IF missing # <<>>
           THEN /\ required_missing' = SelectSeq(missing, LAMBDA h : h <= max_lead_time)
                /\ validation_missing' = SelectSeq(missing, LAMBDA h : h > max_lead_time)
                /\ val_pc' = "not_ready"
           ELSE /\ required_missing' = <<>>
                /\ validation_missing' = <<>>
                /\ val_pc' = "valid"
        /\ upstream_at_validation' = upstream
        /\ UNCHANGED <<product, source_type, max_lead_time, upstream, listing_ok,
                       lead_times, fetch_file_specs, pubvars, dlvars, wfvars>>

\* every hour up to max_lead_time, whatever the cadence table
generate_lead_times_Hourly(p, m) == PyRange(0, m + 1, 1)

\* _generate_lead_times()
generate_lead_times(p, m) ==
    IF p = "gfs" THEN GfsGenerateLeadTimes(m) ELSE EcmwfGenerateLeadTimes(p, m)

GenerateLeadTimes ==
    /\ val_pc = "scheduled"
    /\ lead_times' = generate_lead_times(product, max_lead_time)
    /\ val_pc' = "generated"
    /\ UNCHANGED <<product, source_type, max_lead_time, upstream, listing_ok,
                   val_file_specs, next_lead_time, validation_specs, val_missing_files,
                   val_available_files, required_missing, validation_missing,
                   upstream_at_validation, fetch_file_specs, pubvars, dlvars, wfvars>>

\* The upstream publishes one more file of the cycle after the validation.
UpstreamPublishes(h) ==
    /\ val_pc = "valid"
    /\ h \in Unpublished(product, max_lead_time) \ upstream
    /\ upstream' = upstream \cup {h}
    /\ UNCHANGED <<product, source_type, max_lead_time, listing_ok, val_pc,
                   val_file_specs, next_lead_time, validation_specs, val_missing_files,
                   val_available_files, required_missing, validation_missing,
                   lead_times, upstream_at_validation, fetch_file_specs,
                   pubvars, dlvars, wfvars>>

\* GribDownloader.download() after a successful validation: the manifest it
\* derives, one _download_file task being submitted per entry (the transfers
\* themselves are the fetch engine's, SpecDownload).
Download ==
    /\ val_pc = "valid"
    /\ fetch_file_specs' = get_file_list(product, max_lead_time, upstream, listing_ok)
    /\ val_pc' = "fetching"
    /\ UNCHANGED <<product, source_type, max_lead_time, upstream, listing_ok,
                   val_file_specs, next_lead_time, validation_specs, val_missing_files,
                   val_available_files, required_missing, validation_missing,
                   lead_times, upstream_at_validation, pubvars, dlvars, wfvars>>

InitValidate == ValInit /\ PubParked /\ DlParked /\ WfAt("validate")

NextValidate ==
    \/ GetFileList
    \/ GetNextLeadTime
    \/ GenerateLeadTimes
    \/ ValidateAvailability
    \/ \E h \in 0..GfsCeiling : UpstreamPublishes(h)
    \/ Download

SpecValidate == InitValidate /\ [][NextValidate]_vars

ValidateTypeOK ==
    /\ val_pc \in {"constructed", "listed", "scheduled", "generated", "valid", "not_ready",
                  "fetching"}
    /\ SeqRange(val_file_specs) \subseteq 0..Ceiling(product)
    /\ next_lead_time \in {None} \cup 0..Ceiling(product)
    /\ SeqRange(val_missing_files) \cup SeqRange(val_available_files) = SeqRange(validation_specs)

\* ---------------------------------------------------------------- sources: claims
Validated == val_pc \in {"valid", "not_ready"}
Scheduled == val_pc \in {"scheduled", "valid", "not_ready"}

\* The sentinel: the first cadence lead time beyond the requested range.  It is
\* defined for cadence-based sources below the ceiling; sources discovered by
\* listing (ECMWF aws / gcs) have none.
Sentinel ==
    IF product # "gfs" /\ source_type \in {"aws", "gcs"} THEN None
    ELSE CadenceNext(product, max_lead_time)

ManifestMissing == SelectSeq(val_file_specs, LAMBDA h : h \notin upstream_at_validation)

\* C15: validate_availability returns without raising only if every manifest
\* file exists in the source store and, when a sentinel is defined, the sentinel
\* file exists too; if any of these files is missing it raises.
C15_ValidOnlyIfAllPresent ==
    Validated =>
        (val_pc = "valid" <=>
            /\ ManifestMissing = <<>>
            /\ Sentinel # None => Sentinel \in upstream_at_validation)

\* C16: when validation fails, the missing required lead times reported are
\* exactly the manifest lead times absent from the source, the sentinel is
\* reported missing iff the sentinel file is absent, and a missing sentinel is
\* never counted among the missing required files.
C16_MissingReportExact ==
    val_pc = "not_ready" =>
        /\ required_missing = ManifestMissing
        /\ validation_missing # <<>> <=> (Sentinel # None /\ Sentinel \notin upstream_at_validation)
        /\ Sentinel \notin SeqRange(required_missing)

\* C17: for GFS, get_next_lead_time returns the first cadence lead time strictly
\* greater than max_lead_time for 1 <= max_lead_time < 384, and none at 384.
C17_GfsNextLeadTime ==
    (product = "gfs" /\ Scheduled) =>
        /\ next_lead_time = CadenceNext("gfs", max_lead_time)
        /\ max_lead_time = GfsCeiling <=> next_lead_time = None
        /\ next_lead_time # None => next_lead_time > max_lead_time

\* C18: for a cadence-based ECMWF source (source type neither aws nor gcs),
\* get_next_lead_time returns the first lead time of the product's cadence
\* strictly greater than max_lead_time, or none at the product ceiling.
C18_EcmwfNextLeadTime ==
    (product # "gfs" /\ source_type \notin {"aws", "gcs"} /\ Scheduled) =>
        next_lead_time = CadenceNext(product, max_lead_time)

\* C19, as stated: for ECMWF sources of type aws or gcs get_next_lead_time
\* returns none, and validate_availability probes only files returned by the
\* listing and no sentinel file.
C19_ProbesOnlyListedFiles ==
    (product # "gfs" /\ source_type \in {"aws", "gcs"}) =>
        /\ Scheduled => next_lead_time = None
        /\ Validated =>
            /\ SeqRange(validation_specs) \subseteq upstream_at_validation
            /\ \A h \in SeqRange(validation_specs) : h <= max_lead_time

\* C19, amended: for ECMWF sources of type aws or gcs get_next_lead_time returns
\* none, and validate_availability probes exactly the manifest of get_file_list
\* and no sentinel file: the listed files up to max_lead_time when the listing
\* succeeds, the cadence lead times up to max_lead_time when the listing call
\* fails.
C19_ProbesOnlyManifest ==
    (product # "gfs" /\ source_type \in {"aws", "gcs"}) =>
        /\ Scheduled => next_lead_time = None
        /\ Validated =>
            /\ validation_specs = val_file_specs
            /\ SeqRange(validation_specs) =
                  {h \in (IF listing_ok THEN upstream_at_validation ELSE Cadence(product)) :
                        h <= max_lead_time}

C19_Witness ==
    /\ product = "ecmwf-ens" /\ source_type = "aws"
    /\ val_pc = "not_ready"
    /\ ~listing_ok
    /\ next_lead_time = None
    /\ Len(validation_specs) > 2
    /\ CadenceNext(product, max_lead_time) \notin SeqRange(validation_specs)

\* C20: the manifest of get_file_list has lead times strictly ascending in
\* iteration order, free of duplicates and all <= max_lead_time, for every
\* product, for cadence-generated and for listing-discovered manifests.
C20_ManifestAscending ==
    val_pc # "constructed" =>
        /\ \A i \in 1..(Len(val_file_specs) - 1) : val_file_specs[i] < val_file_specs[i + 1]
        /\ Cardinality(SeqRange(val_file_specs)) = Len(val_file_specs)
        /\ \A i \in 1..Len(val_file_specs) : val_file_specs[i] <= max_lead_time

\* a listing whose name order differs from the lead-time order
C20_Witness ==
    /\ product = "ecmwf-hres" /\ source_type = "aws" /\ listing_ok
    /\ val_pc = "listed"
    /\ max_lead_time >= 102
    /\ Len(val_file_specs) > 90

\* C21: _generate_lead_times returns exactly the cadence lead times that are
\* <= max_lead_time, starting at 0 and in ascending order, for every product and
\* every max_lead_time within the ceiling.
C21_GenerateLeadTimesExact ==
    val_pc = "generated" =>
        /\ SeqRange(lead_times) = {h \in Cadence(product) : h <= max_lead_time}
        /\ \A i \in 1..(Len(lead_times) - 1) : lead_times[i] < lead_times[i + 1]
        /\ lead_times[1] = 0

C21_Witness ==
    /\ val_pc = "generated"
    /\ product = "gfs"
    /\ max_lead_time = 6
    /\ lead_times = <<0, 1, 2, 3, 4, 5, 6>>

\* C29: if validate_availability succeeds, every lead time of the product's
\* cadence up to max_lead_time is present in the source store, for every
\* product and every source type.
C29_ValidImpliesCycleComplete ==
    val_pc = "valid" =>
        {h \in Cadence(product) : h <= max_lead_time} \subseteq upstream_at_validation

\* C30: the manifest download fetches after a successful validation is the
\* manifest the validation checked, also when the upstream published files in
\* between: no file is fetched that the validation did not check.
C30_FetchedManifestWasValidated ==
    val_pc = "fetching" =>
        /\ fetch_file_specs = val_file_specs
        /\ SeqRange(fetch_file_specs) \subseteq SeqRange(validation_specs)

\* ---------------------------------------------------------------- configuration: functions
\* DownloadConfig.validate_cycle: the field validator of cycle
validate_cycle(p, cycle_hour) ==
    IF cycle_hour \notin {0, 6, 12, 18} THEN "ValueError"
    ELSE IF p \in {"ecmwf-hres", "ecmwf-ens"} /\ cycle_hour \notin {0, 12} THEN "ValueError"
    ELSE "ok"

validate_lead_time_NoCeiling(p, v) == "ok"

\* DownloadConfig.validate_lead_time: the field validator of max_lead_time
validate_lead_time(p, v) ==
    IF p = "gfs" /\ v > GfsCeiling THEN "ValueError"
    ELSE IF p = "ecmwf-hres" /\ v > HresCeiling THEN "ValueError"
    ELSE IF p = "ecmwf-ens" /\ v > EnsCeiling THEN "ValueError"
    ELSE "ok"

\* DownloadConfig(...): the fields whose validation fails. cycle is validated
\* only when given (its default is not validated); max_lead_time has gt=0
\* and then its field validator.
DownloadConfigErrors(p, cycle_hour, v) ==
    {f \in {"cycle"} : cycle_hour # None /\ validate_cycle(p, cycle_hour) # "ok"}
    \cup {f \in {"max_lead_time"} : ~(v > 0) \/ validate_lead_time(p, v) # "ok"}

\* ---------------------------------------------------------------- configuration: actions
\* DownloadConfig(product=..., cycle=..., max_lead_time=...), as the download
\* command and library callers construct it
DownloadConfigInit ==
    /\ route = "constructor"
    /\ run_pc = "start"
    /\ LET errors == DownloadConfigErrors(config_product, input_cycle, config_max_lead_time)
       IN  /\ config_pc' = IF errors = {} THEN "accepted" ELSE "rejected"
           /\ config_cycle' = IF errors = {} THEN input_cycle ELSE None
    /\ run_pc' = "done"
    /\ UNCHANGED <<route, config_product, input_cycle, cli_cycle, config_max_lead_time,
                   validate_before_download, skip_download, process_requested,
                   exit_code, run_log, step, loadvars, writevars, zarrvars, srcvars, pubvars, dlvars, valvars>>

\* WorkflowConfig.from_yaml(path): cls(**data) validates the download section
FromYaml ==
    /\ route = "yaml"
    /\ run_pc = "start"
    /\ LET errors == DownloadConfigErrors(config_product, input_cycle, config_max_lead_time)
       IN  /\ config_pc' = IF errors = {} THEN "accepted" ELSE "rejected"
           /\ config_cycle' = IF errors = {} THEN input_cycle ELSE None
    /\ run_pc' = "done"
    /\ UNCHANGED <<route, config_product, input_cycle, cli_cycle, config_max_lead_time,
                   validate_before_download, skip_download, process_requested,
                   exit_code, run_log, step, loadvars, writevars, zarrvars, srcvars, pubvars, dlvars, valvars>>

\* run: workflow_config = WorkflowConfig.from_yaml(config); a validation error
\* is caught by run's except clause, which exits with status 1
RunLoadConfig ==
    /\ route = "run"
    /\ run_pc = "start"
    /\ LET errors == DownloadConfigErrors(config_product, input_cycle, config_max_lead_time)
       IN  /\ config_pc' = IF errors = {} THEN "accepted" ELSE "rejected"
           /\ config_cycle' = IF errors = {} THEN input_cycle ELSE None
           /\ run_pc' = IF errors = {} THEN "loaded" ELSE "exited"
           /\ exit_code' = IF errors = {} THEN None ELSE 1
    /\ UNCHANGED <<route, config_product, input_cycle, cli_cycle, config_max_lead_time,
                   validate_before_download, skip_download, process_requested,
                   run_log, step, loadvars, writevars, zarrvars, srcvars, pubvars, dlvars, valvars>>

\* run: the cycle of --cycle / $CYCLE is assigned to download.cycle (an
\* assignment, which runs no validator); without it the YAML must give one
RunSetCycle ==
    /\ route = "run"
    /\ run_pc = "loaded"
    /\ IF cli_cycle # None
       THEN /\ config_cycle' = cli_cycle
            /\ run_pc' = "cycle_set"
            /\ exit_code' = exit_code
       ELSE IF config_cycle = None
       THEN /\ run_pc' = "exited"
            /\ exit_code' = 1
            /\ config_cycle' = config_cycle
       ELSE /\ run_pc' = "cycle_set"
            /\ UNCHANGED <<config_cycle, exit_code>>
    /\ UNCHANGED <<route, config_product, input_cycle, cli_cycle, config_max_lead_time,
                   validate_before_download, skip_download, process_requested,
                   config_pc, run_log, step, loadvars, writevars, zarrvars, srcvars, pubvars, dlvars, valvars>>

\* run, download step: GribDownloader(...) is constructed, then the read of
\* workflow_config.download.clean_destination raises AttributeError
\* (DownloadConfig has no such field), which run's except clause turns into
\* exit status 1. validate_availability() and download() follow that read.
RunDownloadStep ==
    /\ route = "run"
    /\ run_pc = "cycle_set"
    /\ IF ~skip_download
       THEN /\ run_log' = run_log \cup {"GribDownloader"}
            /\ run_pc' = "exited"
            /\ exit_code' = 1
       ELSE /\ run_pc' = "process_step"
            /\ UNCHANGED <<run_log, exit_code>>
    /\ UNCHANGED <<route, config_product, input_cycle, cli_cycle, config_max_lead_time,
                   validate_before_download, skip_download, process_requested,
                   config_pc, config_cycle, step, loadvars, writevars, zarrvars, srcvars, pubvars, dlvars, valvars>>

\* run, process step: skipped with --skip-process or without process tasks;
\* otherwise tasks_to_run.items() on the list WorkflowConfig.process raises
\* AttributeError, and run exits with status 1 before any GribProcessor
RunProcessStep ==
    /\ route = "run"
    /\ run_pc = "process_step"
    /\ IF process_requested
       THEN /\ run_pc' = "exited"
            /\ exit_code' = 1
       ELSE /\ run_pc' = "cleanup_step"
            /\ exit_code' = exit_code
    /\ UNCHANGED <<route, config_product, input_cycle, cli_cycle, config_max_lead_time,
                   validate_before_download, skip_download, process_requested,
                   config_pc, config_cycle, run_log, step, loadvars, writevars, zarrvars, srcvars, pubvars, dlvars, valvars>>

\* run, cleanup step and return: nothing was downloaded in this invocation,
\* so nothing is deleted; "Workflow Complete", exit status 0
RunComplete ==
    /\ route = "run"
    /\ run_pc = "cleanup_step"
    /\ run_pc' = "exited"
    /\ exit_code' = 0
    /\ UNCHANGED <<route, config_product, input_cycle, cli_cycle, config_max_lead_time,
                   validate_before_download, skip_download, process_requested,
                   config_pc, config_cycle, run_log, step, loadvars, writevars, zarrvars, srcvars, pubvars, dlvars, valvars>>

InitRun == RunInit /\ step = "config" /\ LoadParked /\ WriteParked /\ ZarrParked /\ PubParked /\ SrcParked /\ DlParked /\ ValParked

NextRun ==
    \/ DownloadConfigInit
    \/ FromYaml
    \/ RunLoadConfig
    \/ RunSetCycle
    \/ RunDownloadStep
    \/ RunProcessStep
    \/ RunComplete

SpecRun == InitRun /\ [][NextRun]_vars

\* ---------------------------------------------------------------- configuration: claims
\* the cycle hours the product publishes
AdmissibleHours(p) == IF p = "gfs" THEN {0, 6, 12, 18} ELSE {0, 12}

\* the request has been decided: the constructor or from_yaml has returned or
\* raised, or run is past its cycle override
Decided == run_pc \in {"done", "cycle_set", "process_step", "cleanup_step", "exited"}

\* the cycle hour the request asks for: run's --cycle / $CYCLE overrides the
\* one of the YAML
RequestedCycle == IF route = "run" /\ cli_cycle # None THEN cli_cycle ELSE input_cycle

\* C22: a download request whose cycle hour is not admissible for its product
\* is rejected, with nothing of the pipeline called, whichever way the cycle
\* is supplied (constructor, YAML, run's --cycle / $CYCLE override).
C22_InadmissibleCycleRejected ==
    (Decided /\ RequestedCycle \notin AdmissibleHours(config_product) \cup {None}) =>
        /\ config_pc = "rejected"
        /\ run_log = {}
        /\ exit_code # 0

\* C23: a max_lead_time that is not positive or is above the product's
\* ceiling is rejected with nothing of the pipeline called, and every value
\* from 1 to the ceiling is accepted (the cycle permitting).
C23_LeadTimeRange ==
    config_pc # "raw" =>
        /\ config_max_lead_time \notin 1..Ceiling(config_product) =>
              config_pc = "rejected" /\ run_log = {} /\ exit_code # 0
        /\ (/\ config_max_lead_time \in 1..Ceiling(config_product)
            /\ input_cycle \in AdmissibleHours(config_product) \cup {None}) =>
              config_pc = "accepted"

C23_Witness ==
    /\ config_pc = "rejected"
    /\ config_max_lead_time = Ceiling(config_product) + 1
    /\ input_cycle \in AdmissibleHours(config_product)
    /\ route = "run"
    /\ exit_code = 1

\* C26: a run with the download step and validate_before_download validates
\* availability before it fetches: once the run has gone through its
\* download step, validate_availability() has been called, the fetch is
\* only ever started after it, and a run that ends without a fetch has
\* failed.
C26_ValidationBeforeFetch ==
    (route = "run" /\ "GribDownloader" \in run_log /\ validate_before_download) =>
        /\ "validate_availability" \in run_log
        /\ "download" \notin run_log => exit_code = 1

\* ---------------------------------------------------------------- process: loading stage
\* process(): _find_grib_files(); no file is an error; otherwise the files
\* are loaded in parallel when max_grib_workers > 1 (all submitted to the
\* pool), one after the other when not
FindGribFiles ==
    /\ load_pc = "find"
    /\ load_pc' = IF grib_files = {} THEN "no_grib_files"
                  ELSE IF max_grib_workers > 1 THEN "parallel"
                  ELSE "sequential"
    /\ UNCHANGED <<max_grib_workers, grib_files, decodes, grib_idx, loaded, gathered,
                   datasets, load_failed_files, step, runvars, writevars, zarrvars, srcvars, pubvars, dlvars, valvars>>

\* process(), sequential loop body: ds = _load_grib_file(grib_file), which
\* returns None for a file that cannot be opened; a dataset is appended
LoadSequential ==
    /\ load_pc = "sequential"
    /\ grib_idx \in grib_files
    /\ datasets' = IF decodes[grib_idx] THEN Append(datasets, grib_idx) ELSE datasets
    /\ grib_idx' = grib_idx + 1
    /\ load_pc' = IF grib_idx + 1 \in grib_files THEN "sequential" ELSE "loaded"
    /\ UNCHANGED <<max_grib_workers, grib_files, decodes, loaded, gathered,
                   load_failed_files, step, runvars, writevars, zarrvars, srcvars, pubvars, dlvars, valvars>>

\* _load_grib_files_parallel: a pool thread finishes _load_grib_file(f)
WorkerLoads(f) ==
    /\ load_pc = "parallel"
    /\ f \in grib_files \ loaded
    /\ loaded' = loaded \cup {f}
    /\ UNCHANGED <<max_grib_workers, grib_files, decodes, load_pc, grib_idx, gathered,
                   datasets, load_failed_files, step, runvars, writevars, zarrvars, srcvars, pubvars, dlvars, valvars>>

\* _load_grib_files_parallel: as_completed yields the future of f; its
\* dataset is appended, a None result goes to failed_files
AsCompleted(f) ==
    /\ load_pc = "parallel"
    /\ f \in loaded \ gathered
    /\ gathered' = gathered \cup {f}
    /\ IF decodes[f]
       THEN /\ datasets' = Append(datasets, f)
            /\ UNCHANGED load_failed_files
       ELSE /\ load_failed_files' = Append(load_failed_files, f)
            /\ UNCHANGED datasets
    /\ UNCHANGED <<max_grib_workers, grib_files, decodes, load_pc, grib_idx, loaded,
                   step, runvars, writevars, zarrvars, srcvars, pubvars, dlvars, valvars>>

\* _load_grib_files_parallel, after the loop: RuntimeError if failed_files,
\* else the datasets are returned
LoadParallelReturn ==
    /\ load_pc = "parallel"
    /\ gathered = grib_files
    /\ load_pc' = IF load_failed_files # <<>> THEN "load_failed" ELSE "loaded"
    /\ UNCHANGED <<max_grib_workers, grib_files, decodes, grib_idx, loaded, gathered,
                   datasets, load_failed_files, step, runvars, writevars, zarrvars, srcvars, pubvars, dlvars, valvars>>

\* process(): "if not datasets: raise ValueError"; otherwise the datasets
\* are combined and the run goes on
CheckDatasets ==
    /\ load_pc = "loaded"
    /\ load_pc' = IF datasets = <<>> THEN "no_datasets" ELSE "combine"
    /\ UNCHANGED <<max_grib_workers, grib_files, decodes, grib_idx, loaded, gathered,
                   datasets, load_failed_files, step, runvars, writevars, zarrvars, srcvars, pubvars, dlvars, valvars>>

InitLoad == LoadInit /\ step = "load" /\ RunParked /\ WriteParked /\ ZarrParked /\ PubParked /\ SrcParked /\ DlParked /\ ValParked

NextLoad ==
    \/ FindGribFiles
    \/ LoadSequential
    \/ \E f \in 1..NumGribFiles : WorkerLoads(f)
    \/ \E f \in 1..NumGribFiles : AsCompleted(f)
    \/ LoadParallelReturn
    \/ CheckDatasets

SpecLoad == InitLoad /\ [][NextLoad]_vars

\* ---------------------------------------------------------------- process: claims
\* the files of the batch that decode
Decodable == {f \in grib_files : decodes[f]}

\* C24: decoding a batch fails the process only if no file decodes; when at
\* least one file decodes and others do not, the process goes on with the
\* datasets of the files that decoded.
C24_FatalOnlyIfNoneDecode ==
    /\ load_pc \in {"load_failed", "no_datasets"} => Decodable = {}
    /\ load_pc = "combine" => SeqRange(datasets) = Decodable /\ Decodable # {}

\* ---------------------------------------------------------------- publish: write local, then upload
\* a publish begins at _write_local_then_upload; the destination may hold
\* what an earlier publish to the same path left there
WriteInit ==
    /\ upload_max_retries \in 0..MaxRetries
    /\ verify_upload \in BOOLEAN
    /\ max_upload_workers \in 1..MaxWorkers
    /\ pc = "check_destination"
    /\ collected = {}
    /\ failed_uploads = <<>>
    /\ error = NoError
    /\ checked = {}
    /\ task = [f \in zarr_files |-> "queued"]
    /\ attempt = [f \in zarr_files |-> 0]
    /\ error_msg = [f \in zarr_files |-> "none"]
    /\ result = [f \in zarr_files |-> NoResult]
    /\ gcs \in SUBSET dest_objects
    /\ store_lost = FALSE
    /\ slept = [f \in zarr_files |-> <<>>]
    /\ pub_overwrite \in BOOLEAN
    /\ dest_existed = FALSE
    /\ temp_dir = "none"
    /\ old_removed = FALSE

FsExists_ControlFileOnly == ZMETADATA \in gcs

\* fs.exists(gcs_check_path): some object lies under the destination prefix
FsExists == gcs # {}

CheckDestination_DeletesFirst ==
    /\ pc = "check_destination"
    /\ IF ~pub_overwrite /\ FsExists
       THEN /\ pc' = "FileExistsError"
            /\ dest_existed' = TRUE
            /\ UNCHANGED gcs
       ELSE /\ pc' = "to_zarr"
            /\ gcs' = {}
            /\ UNCHANGED dest_existed
    /\ UNCHANGED <<upload_max_retries, verify_upload, max_upload_workers, collected,
                   failed_uploads, error, checked, task, attempt, error_msg, result,
                   store_lost, slept, pub_overwrite, temp_dir, old_removed,
                   step, runvars, loadvars, zarrvars, srcvars, dlvars, valvars>>

\* _write_local_then_upload, mode "w-": FileExistsError if the destination
\* exists; then the temp directory is made
CheckDestination ==
    /\ pc = "check_destination"
    /\ IF ~pub_overwrite /\ FsExists
       THEN /\ pc' = "FileExistsError"
            /\ dest_existed' = TRUE
       ELSE /\ pc' = "to_zarr"
            /\ UNCHANGED dest_existed
    /\ UNCHANGED <<upload_max_retries, verify_upload, max_upload_workers, collected,
                   failed_uploads, error, checked, task, attempt, error_msg, result,
                   gcs, store_lost, slept, pub_overwrite, temp_dir, old_removed,
                   step, runvars, loadvars, zarrvars, srcvars, dlvars, valvars>>

\* dataset.to_zarr(local_zarr_path, mode="w", consolidated=True)
ToZarr ==
    /\ pc = "to_zarr"
    /\ temp_dir' = "written"
    /\ pc' = "delete_existing"
    /\ UNCHANGED <<upload_max_retries, verify_upload, max_upload_workers, collected,
                   failed_uploads, error, checked, task, attempt, error_msg, result,
                   gcs, store_lost, slept, pub_overwrite, dest_existed, old_removed,
                   step, runvars, loadvars, zarrvars, srcvars, dlvars, valvars>>

\* dataset.to_zarr(local_zarr_path, ...) raises (disk full, encoding error):
\* what it wrote stays in the temp directory until the finally clause
ToZarrFails ==
    /\ pc = "to_zarr"
    /\ temp_dir' = "written"
    /\ pc' = "write_failed"
    /\ UNCHANGED <<upload_max_retries, verify_upload, max_upload_workers, collected,
                   failed_uploads, error, checked, task, attempt, error_msg, result,
                   gcs, store_lost, slept, pub_overwrite, dest_existed, old_removed,
                   step, runvars, loadvars, zarrvars, srcvars, dlvars, valvars>>

DeleteExisting_KeepsObjects ==
    /\ pc = "delete_existing"
    /\ dest_existed' = (pub_overwrite /\ FsExists)
    /\ pc' = "idle"
    /\ UNCHANGED <<upload_max_retries, verify_upload, max_upload_workers, collected,
                   failed_uploads, error, checked, task, attempt, error_msg, result,
                   gcs, store_lost, slept, pub_overwrite, temp_dir, old_removed,
                   step, runvars, loadvars, zarrvars, srcvars, dlvars, valvars>>

\* _write_local_then_upload, mode "w": an existing destination is removed
\* (fs.rm recursive); _upload_zarr_to_gcs is called next
DeleteExisting ==
    /\ pc = "delete_existing"
    /\ IF pub_overwrite /\ FsExists
       THEN /\ gcs' = {}
            /\ dest_existed' = TRUE
            /\ old_removed' = (OLD_OBJECT \in gcs)
       ELSE UNCHANGED <<gcs, dest_existed, old_removed>>
    /\ pc' = "idle"
    /\ UNCHANGED <<upload_max_retries, verify_upload, max_upload_workers, collected,
                   failed_uploads, error, checked, task, attempt, error_msg, result,
                   store_lost, slept, pub_overwrite, temp_dir,
                   step, runvars, loadvars, zarrvars, srcvars, dlvars, valvars>>

\* finally: shutil.rmtree(temp_dir), after _upload_zarr_to_gcs returned or
\* raised, or after to_zarr raised
CleanupTemp ==
    /\ Terminal \/ pc = "write_failed"
    /\ temp_dir = "written"
    /\ temp_dir' = "removed"
    /\ UNCHANGED <<pubvars, pub_overwrite, dest_existed, old_removed,
                   step, runvars, loadvars, zarrvars, srcvars, dlvars, valvars>>

InitWrite == WriteInit /\ step = "process" /\ RunParked /\ LoadParked /\ ZarrParked /\ SrcParked /\ DlParked /\ ValParked

NextWrite ==
    \/ CheckDestination
    \/ ToZarr
    \/ ToZarrFails
    \/ DeleteExisting
    \/ NextPublish
    \/ CleanupTemp

SpecWrite == InitWrite /\ [][NextWrite]_vars

\* ---------------------------------------------------------------- publish: re-publish claims
\* the publish has ended: _upload_zarr_to_gcs returned or raised, or the
\* destination check raised
Ended == Terminal \/ pc = "FileExistsError"

AllUploadsSucceeded == \A f \in zarr_files : result[f].success

\* C25 as stated: when the destination already holds objects of the archive,
\* a fresh publish uploads every file again and, when all its uploads
\* succeed, completes successfully, for both values of overwrite.
C25_RepublishUploadsEverything ==
    (FsExists \/ dest_existed) =>
        /\ Ended => \A f \in zarr_files : task[f] = "done"
        /\ (Ended /\ AllUploadsSucceeded /\ ~store_lost) => pc \in {"uploaded", "verified"}
        /\ pc # "FileExistsError"

\* C25 amended: with overwrite=true a fresh publish removes what the
\* destination holds and runs the upload of every file again, so whatever is
\* at the destination was uploaded by this publish, and when every upload
\* succeeds (and the store keeps what it accepted) it completes with the
\* whole archive at the destination; with overwrite=false a destination that
\* exists makes the publish raise FileExistsError before anything is written
\* or uploaded.
C25_OverwriteRepublishes ==
    /\ (pub_overwrite /\ dest_existed) =>
          /\ gcs \subseteq {f \in zarr_files : attempt[f] >= 1}
          /\ Ended => \A f \in zarr_files : task[f] = "done"
          /\ (Ended /\ AllUploadsSucceeded /\ ~store_lost) =>
                pc \in {"uploaded", "verified"} /\ gcs = zarr_files
    /\ (~pub_overwrite /\ dest_existed) =>
          /\ pc = "FileExistsError"
          /\ \A f \in zarr_files : attempt[f] = 0 /\ task[f] = "queued"
          /\ temp_dir = "none"
    /\ (~pub_overwrite /\ FsExists /\ pc \notin {"check_destination", "FileExistsError"}) =>
          gcs \subseteq {f \in zarr_files : attempt[f] >= 1}

C25_Witness ==
    /\ pub_overwrite
    /\ dest_existed
    /\ pc = "verified"
    /\ gcs = zarr_files
    /\ \A f \in zarr_files : attempt[f] >= 1

\* ---------------------------------------------------------------- local write with consolidation
\* _write_zarr_with_consolidation(ds, path, mode="w"): the store at path is
\* opened for overwrite, which removes what it holds
OpenStore ==
    /\ local_pc = "open"
    /\ local_mtime' = [f \in zarr_files |-> None]
    /\ local_pc' = "writing"
    /\ UNCHANGED <<clock, step, runvars, loadvars, writevars, srcvars, pubvars, dlvars, valvars>>

\* a data file of the archive is written
WriteDataFile(f) ==
    /\ local_pc = "writing"
    /\ f \in DataChunks
    /\ local_mtime[f] = None
    /\ local_mtime' = [local_mtime EXCEPT ![f] = clock]
    /\ UNCHANGED <<local_pc, clock, step, runvars, loadvars, writevars, srcvars, pubvars, dlvars, valvars>>

ConsolidateMetadata_BeforeData ==
    /\ local_pc = "writing"
    /\ local_mtime[ZMETADATA] = None
    /\ local_mtime' = [local_mtime EXCEPT ![ZMETADATA] = clock]
    /\ UNCHANGED <<local_pc, clock, step, runvars, loadvars, writevars, srcvars, pubvars, dlvars, valvars>>

\* post-write consolidation: once every data file is written, the metadata
\* is consolidated into .zmetadata and the write returns
ConsolidateMetadata ==
    /\ local_pc = "writing"
    /\ \A f \in DataChunks : local_mtime[f] # None
    /\ local_mtime' = [local_mtime EXCEPT ![ZMETADATA] = clock]
    /\ local_pc' = "done"
    /\ UNCHANGED <<clock, step, runvars, loadvars, writevars, srcvars, pubvars, dlvars, valvars>>

\* time passes on the local filesystem while the write is under way
ClockTick ==
    /\ local_pc # "done"
    /\ clock < MaxClock
    /\ clock' = clock + 1
    /\ UNCHANGED <<local_pc, local_mtime, step, runvars, loadvars, writevars, srcvars, pubvars, dlvars, valvars>>

InitZarr == ZarrInit /\ step = "write" /\ RunParked /\ LoadParked /\ WriteParked /\ PubParked /\ SrcParked /\ DlParked /\ ValParked

NextZarr ==
    \/ OpenStore
    \/ \E f \in DataChunks : WriteDataFile(f)
    \/ ConsolidateMetadata
    \/ ClockTick

SpecZarr == InitZarr /\ [][NextZarr]_vars

\* C27: in the archive written locally, .zmetadata is written after every
\* data file: whenever it is present in the new archive, every data file is
\* present and none has a later modification time.
C27_ControlFileWrittenLast ==
    (local_pc # "open" /\ local_mtime[ZMETADATA] # None) =>
        \A f \in DataChunks : local_mtime[f] # None /\ local_mtime[ZMETADATA] >= local_mtime[f]

C27_Witness ==
    /\ local_pc = "done"
    /\ \E f \in DataChunks : local_mtime[ZMETADATA] > local_mtime[f]
    /\ \E f \in DataChunks : local_mtime[ZMETADATA] = local_mtime[f]

\* ---------------------------------------------------------------- both worker pools
\* download() and _upload_zarr_to_gcs(), each with its own pool: a behaviour
\* is one call of either
InitTransfers == InitDownload \/ InitPublish

NextTransfers ==
    \/ step = "download" /\ NextDownload
    \/ step = "process" /\ NextPublish

SpecTransfers == InitTransfers /\ [][NextTransfers]_vars

\* the files of the upload failures gathered so far
FailedUploadFiles == {failed_uploads[i][1] : i \in 1..Len(failed_uploads)}

\* C28: the reports depend on the per-file results only, not on the order in
\* which the worker tasks complete: at every point the succeeded and failed
\* files gathered by download, and the failed uploads gathered by publish,
\* are exactly the gathered files with that result, and the final reports
\* are those sets over all files.
C28_ReportsIndependentOfOrder ==
    /\ Downloaded = {s \in dl_collected : dl_result[s] = "true"}
    /\ FailedSet = {s \in dl_collected : dl_result[s] # "true"}
    /\ FailedUploadFiles = {f \in collected : ~result[f].success}
    /\ dl_pc = "returned" =>
          /\ Downloaded = {s \in file_specs : dl_result[s] = "true"}
          /\ FailedSet = {s \in file_specs : dl_result[s] # "true"}
    /\ pc = "upload_failed" =>
          {p[1] : p \in error.files} = {f \in zarr_files : ~result[f].success}

\* two uploads failed and were gathered in the reverse of the order in which
\* they were submitted, a third succeeded
C28_Witness ==
    /\ step = "process"
    /\ pc = "upload_failed"
    /\ Len(failed_uploads) = 2
    /\ failed_uploads[1][1] > failed_uploads[2][1]
    /\ \E f \in zarr_files : result[f].success

\* ---------------------------------------------------------------- publish: retry schedule
\* _upload_zarr_to_gcs with upload_max_retries up to MaxBackoffRetries, so
\* that a task goes through several sleeps
BackoffInit ==
    /\ upload_max_retries \in 0..MaxBackoffRetries
    /\ verify_upload \in BOOLEAN
    /\ max_upload_workers \in 1..MaxWorkers
    /\ pc = "idle"
    /\ collected = {}
    /\ failed_uploads = <<>>
    /\ error = NoError
    /\ checked = {}
    /\ task = [f \in zarr_files |-> "queued"]
    /\ attempt = [f \in zarr_files |-> 0]
    /\ error_msg = [f \in zarr_files |-> "none"]
    /\ result = [f \in zarr_files |-> NoResult]
    /\ gcs = {}
    /\ store_lost = FALSE
    /\ slept = [f \in zarr_files |-> <<>>]

InitBackoff == BackoffInit /\ DlParked /\ ValParked /\ WfAt("process")

SpecBackoff == InitBackoff /\ [][NextPublish]_vars

\* the retries f's task has begun: every failed attempt but a final one is
\* followed by a retry, and a task that is done has made its final attempt
Retries(f) ==
    IF task[f] = "done" THEN (IF attempt[f] >= 1 THEN attempt[f] - 1 ELSE 0)
    ELSE attempt[f]

\* C31: before its k-th retry (k >= 1) a task has slept 2^(k-1) seconds, and
\* it sleeps at no other time: the sleeps of a task are exactly 1, 2, 4, ...,
\* one per retry begun, none after a final failed attempt or a success.
C31_BackoffSchedule ==
    \A f \in zarr_files :
        /\ Len(slept[f]) = Retries(f)
        /\ \A k \in 1..Len(slept[f]) : slept[f][k] = 2 ^ (k - 1)

C31_Witness ==
    \E f \in zarr_files :
        /\ task[f] = "done"
        /\ ~result[f].success
        /\ attempt[f] = 4
        /\ slept[f] = <<1, 2, 4>>

\* ---------------------------------------------------------------- publish: attempts and termination
\* C32: for every upload_max_retries >= 0, no file is reported as a failed
\* upload without an upload attempt having been made for it.
C32_NoFailureWithoutAttempt ==
    \A i \in 1..Len(failed_uploads) : attempt[failed_uploads[i][1]] >= 1

\* every step of the publish but the store's own loss of an object
PublishProgress ==
    \/ Submit
    \/ \E f \in zarr_files : StartTask(f)
    \/ \E f \in zarr_files : UploadOk(f)
    \/ \E f \in zarr_files : \E e \in Errors : UploadFail(f, e)
    \/ \E f \in zarr_files : LoopExhausted(f)
    \/ \E f \in zarr_files : Collect(f)
    \/ ReportFailed
    \/ ReturnUnverified
    \/ VerifyZarrUpload

\* each upload attempt returns or times out, pool threads and the main
\* thread keep running: a publish that can take a step takes one
SpecPublishLive == InitPublish /\ [][NextPublish]_vars /\ WF_vars(PublishProgress)

AttemptsBounded == \A f \in zarr_files : attempt[f] <= upload_max_retries

\* C33: every publish ends in a reported outcome (returned, upload failure,
\* verification failure or success), each file making a bounded number of
\* attempts.
C33_PublishTerminates == []AttemptsBounded /\ <>Terminal

C33_Witness ==
    /\ pc = "upload_failed"
    /\ upload_max_retries = MaxRetries
    /\ \E f \in zarr_files : attempt[f] = MaxRetries /\ ~result[f].success
    /\ \E f \in zarr_files : attempt[f] = 1 /\ result[f].success

\* ---------------------------------------------------------------- process: parallel against sequential loading
\* the sequential loop of process() as a function of the batch: the files
\* whose _load_grib_file result is not None, in file order
SequentialDatasets ==
    SelectSeq([i \in 1..Cardinality(grib_files) |-> i], LAMBDA f : decodes[f])

\* where process() stands after sequential loading of the batch
SequentialOutcome ==
    IF grib_files = {} THEN "no_grib_files"
    ELSE IF SequentialDatasets = <<>> THEN "no_datasets"
    ELSE "combine"

LoadEnded == load_pc \in {"no_grib_files", "load_failed", "no_datasets", "combine"}

\* C34: for the same files and the same per-file decode results, loading
\* ends the same way with any max_grib_workers: the outcome, and the set of
\* loaded datasets, are those of the sequential loop.
C34_ParallelEqualsSequential ==
    LoadEnded =>
        /\ load_pc = SequentialOutcome
        /\ load_pc = "combine" => SeqRange(datasets) = SeqRange(SequentialDatasets)

\* ---------------------------------------------------------------- publish: existing destination
\* C35: with overwrite disabled, a publish to a destination that holds
\* objects ends at the destination check with FileExistsError: nothing is
\* written locally, nothing is deleted or uploaded, the destination is left
\* as it is.
C35_ExistingArchiveRefused ==
    [][(~pub_overwrite /\ gcs # {} /\ pc \in {"check_destination", "FileExistsError"}) =>
          /\ pc' = "FileExistsError"
          /\ gcs' = gcs
          /\ temp_dir' = "none"
          /\ \A f \in zarr_files : attempt'[f] = 0 /\ task'[f] = "queued"]_vars

C35_Witness ==
    /\ ~pub_overwrite
    /\ pc = "FileExistsError"
    /\ OLD_OBJECT \in gcs
    /\ ZMETADATA \notin gcs
    /\ temp_dir = "none"
    /\ \A f \in zarr_files : attempt[f] = 0

\* C36: with overwrite enabled the existing destination is removed only
\* once the local archive is written and before any upload is started; it
\* is untouched while the local write is under way or has failed; apart from
\* the store's own losses nothing is removed at any other point; and a
\* publish that succeeds leaves no object of the old archive that the new
\* one does not have.
C36_DeleteAfterLocalWriteBeforeUpload ==
    [][/\ pc \in {"check_destination", "to_zarr", "write_failed"} => gcs' = gcs
       /\ (gcs \ gcs' # {} /\ ~store_lost') =>
             /\ pc = "delete_existing"
             /\ pub_overwrite
             /\ temp_dir = "written"
             /\ gcs' = {}
             /\ \A f \in zarr_files : attempt[f] = 0 /\ task[f] = "queued"
       /\ pc' \in {"uploaded", "verified"} => OLD_OBJECT \notin gcs']_vars

C36_Witness ==
    /\ pub_overwrite
    /\ old_removed
    /\ pc = "verified"
    /\ gcs = zarr_files
    /\ temp_dir = "removed"

\* ---------------------------------------------------------------- sources: the ECMWF source type
\* DownloadConfig.set_default_source_bucket: the bucket given, else the
\* default bucket of the source type
set_default_source_bucket(prod, bucket, st) ==
    IF bucket # "unset" THEN bucket
    ELSE IF prod = "gfs" THEN "global-forecast-system"
    ELSE IF st = "aws" THEN "ecmwf-forecasts"
    ELSE "ecmwf-open-data"

\* ECMWFSource.__init__: a source type that is given (truthy) is taken,
\* otherwise it is read off the bucket name
ECMWFSourceType(st, bucket) ==
    IF st \in {"aws", "gcs"} THEN st
    ELSE IF bucket = "ecmwf-forecasts" THEN "aws"
    ELSE IF bucket = "ecmwf-open-data" THEN "gcs"
    ELSE "gcs"

\* create_data_source: a GFS source takes no source type, an ECMWF source
\* is handed the one passed in
create_data_source(prod, st, bucket) ==
    IF prod = "gfs" THEN "unset" ELSE ECMWFSourceType(st, bucket)

\* DownloadConfig(product=..., source_bucket=..., source_type=...): the
\* source_type field defaults to "gcs" when left out, None stays None
SourceConfigInit ==
    /\ src_route = "config"
    /\ src_pc = "start"
    /\ LET st == IF given_source_type = "unset" THEN "gcs" ELSE given_source_type
       IN  /\ cfg_source_type' = st
           /\ cfg_source_bucket' = set_default_source_bucket(src_product, given_source_bucket, st)
    /\ src_pc' = "configured"
    /\ UNCHANGED <<src_route, src_product, given_source_type, given_source_bucket,
                   ecmwf_source_type, step, runvars, loadvars, writevars, zarrvars,
                   pubvars, dlvars, valvars>>

\* GribDownloader.__init__: create_data_source(..., source_bucket=
\* config.source_bucket, source_type=config.source_type)
BuildDownloader ==
    /\ src_route = "config"
    /\ src_pc = "configured"
    /\ ecmwf_source_type' = create_data_source(src_product, cfg_source_type, cfg_source_bucket)
    /\ src_pc' = "built"
    /\ UNCHANGED <<src_route, src_product, given_source_type, given_source_bucket,
                   cfg_source_type, cfg_source_bucket, step, runvars, loadvars,
                   writevars, zarrvars, pubvars, dlvars, valvars>>

\* create_data_source(...) called without a DownloadConfig; source_type
\* defaults to None
CreateDataSource ==
    /\ src_route = "direct"
    /\ src_pc = "start"
    /\ ecmwf_source_type' = create_data_source(src_product, given_source_type, given_source_bucket)
    /\ src_pc' = "built"
    /\ UNCHANGED <<src_route, src_product, given_source_type, given_source_bucket,
                   cfg_source_type, cfg_source_bucket, step, runvars, loadvars,
                   writevars, zarrvars, pubvars, dlvars, valvars>>

InitSource == SrcInit /\ step = "source" /\ RunParked /\ LoadParked /\ WriteParked /\ ZarrParked /\ PubParked /\ DlParked /\ ValParked

NextSource ==
    \/ SourceConfigInit
    \/ BuildDownloader
    \/ CreateDataSource

SpecSource == InitSource /\ [][NextSource]_vars

\* what the bucket name says about the source type
InferredFromBucket(bucket) == IF bucket = "ecmwf-forecasts" THEN "aws" ELSE "gcs"

\* C37: an ECMWF source uses a source type given as aws or gcs as given, and
\* when none is given infers it from the source bucket the user named
\* ('ecmwf-forecasts' aws, anything else gcs), also when the downloader is
\* built from a DownloadConfig with source_bucket set and source_type not.
C37_SourceTypeExplicitElseInferred ==
    (src_pc = "built" /\ src_product # "gfs") =>
        /\ given_source_type \in {"aws", "gcs"} => ecmwf_source_type = given_source_type
        /\ (given_source_type \in {"none", "unset"} /\ given_source_bucket # "unset") =>
              ecmwf_source_type = InferredFromBucket(given_source_bucket)

\* ---------------------------------------------------------------- download: what it may touch
\* C38: no step of a download changes the source store, and a destination
\* object changes only when it is the destination path of a manifest entry
\* whose task is running; every other destination object keeps its content,
\* whatever the order in which the workers run.
C38_DownloadWritesOnlyManifestDestinations ==
    [][/\ source_store' = source_store
       /\ \A o \in dest_paths :
             dest_store'[o] # dest_store[o] => (o \in file_specs /\ dl_task[o] = "running")]_vars

\* a call returned after copying one entry while another was skipped or
\* failed, next to an object that the manifest does not name
C38_Witness ==
    /\ dl_pc = "returned"
    /\ dest_store[UNLISTED] = "old"
    /\ \E s \in file_specs : dest_store[s] = "copied" /\ dest_at_start[s] # "copied" /\ s \in source_store
    /\ \E t \in file_specs : dest_store[t] = dest_at_start[t] /\ dest_store[t] = "old"
====
